---- MODULE Spec2Model ----
(***************************************************************************)
(* A model of charts-build-scripts: the lifecycle status computation of    *)
(* pkg/lifecycle/status.go and the patch engine of pkg/diff/diff.go.       *)
(*                                                                         *)
(* Go maps (map[string][]Asset) are functions whose DOMAIN is the set of   *)
(* keys present; a nil or empty map is the function with the empty domain, *)
(* and a lookup of a missing key yields the nil slice, the empty sequence. *)
(***************************************************************************)
EXTENDS Naturals, Sequences, FiniteSets, TLC

(***************************************************************************)
(* Bounds of the model.                                                    *)
(***************************************************************************)
\* The most assets (chart, version entries) a development index holds.
MaxDevAssets == 2
\* The most assets a production index holds.
MaxReleasedAssets == 2
\* The most runs of the status check on one Dependencies object.
MaxRuns == 2

\* Chart names and version strings of the indexes.
Charts == {"nginx", "redis"}
Versions == {"1.2.0", "1.3.0"}

(***************************************************************************)
(* Data model.                                                             *)
(***************************************************************************)
\* An Asset: the version record of one chart version; only its Version
\* field is read by the status computation.
Asset == [Version : Versions]

mkAsset(v) == [Version |-> v]

\* The empty (or nil) map.
EmptyMap == [c \in {} |-> <<>>]

\* m[k] of a Go map: the nil slice when k is missing.
Lookup(m, k) == IF k \in DOMAIN m THEN m[k] ELSE <<>>

\* A faulty append: m[k] = []Asset{a}, which forgets the earlier entries.
AppendToOverwriting(m, k, a) ==
    [c \in DOMAIN m \cup {k} |-> IF c = k THEN <<a>> ELSE m[c]]

\* m[k] = append(m[k], a)
AppendTo(m, k, a) ==
    IF k \in DOMAIN m THEN [m EXCEPT ![k] = Append(@, a)]
    ELSE [c \in DOMAIN m \cup {k} |-> IF c = k THEN <<a>> ELSE m[c]]

\* The sequences over S of length at most n.
SeqsUpTo(S, n) == UNION {[1..k -> S] : k \in 0..n}

\* The number of assets of a mapping.
RECURSIVE TotalAssets(_)
TotalAssets(m) ==
    IF DOMAIN m = {} THEN 0
    ELSE LET c == CHOOSE x \in DOMAIN m : TRUE
         IN  Len(m[c]) + TotalAssets([d \in DOMAIN m \ {c} |-> m[d]])

\* The Version Set Mappings an index file can hold: every chart present has
\* at least one version, and the index holds at most n assets.
Mappings(n) ==
    LET lists == SeqsUpTo(Asset, n) \ {<<>>}
    IN  {m \in UNION {[D -> lists] : D \in SUBSET Charts} : TotalAssets(m) <= n}

\* The orders in which a Go range statement may visit the keys in S.
Orders(S) == {o \in [1..Cardinality(S) -> S] : \A c \in S : \E i \in DOMAIN o : o[i] = c}

\* The lifecycle policy of ld.VR as three opaque predicates over version
\* strings; the release decision may also fail with an error.
ReleaseAnswers == {"release", "forward", "error"}
VersionRules ==
    [inLifecycle : SUBSET Versions,
     toRelease : [Versions -> ReleaseAnswers],
     rc : SUBSET Versions]

CheckChartVersionForLifecycle(rules, v) == v \in rules.inLifecycle
CheckChartVersionToRelease(rules, v) == rules.toRelease[v]
CheckForRCVersion(rules, v) == v \in rules.rc

\* &Status{ld: ld}: the eight mappings are nil.
NewStatus ==
    [AssetsInLifecycleCurrentBranch |-> EmptyMap,
     AssetsOutLifecycleCurrentBranch |-> EmptyMap,
     AssetsReleasedInLifecycle |-> EmptyMap,
     AssetsNotReleasedOutLifecycle |-> EmptyMap,
     AssetsNotReleasedInLifecycle |-> EmptyMap,
     AssetsReleasedOutLifecycle |-> EmptyMap,
     AssetsToBeReleased |-> EmptyMap,
     AssetsToBeForwardPorted |-> EmptyMap]

(***************************************************************************)
(* The classifier.                                                         *)
(***************************************************************************)
\* A faulty search that answers after looking at the first released version.
checkIfVersionIsReleasedFirstOnly(version, releasedVersions) ==
    Len(releasedVersions) > 0 /\ version = releasedVersions[1].Version

checkIfVersionIsReleased(version, releasedVersions) ==
    \E i \in DOMAIN releasedVersions : version = releasedVersions[i].Version

\* The switch of the inner loop: the bucket a development version goes to.
bucketOf(released, inLifecycle) ==
    CASE released /\ inLifecycle -> "AssetsReleasedInLifecycle"
      [] ~released /\ ~inLifecycle -> "AssetsNotReleasedOutLifecycle"
      [] ~released /\ inLifecycle -> "AssetsNotReleasedInLifecycle"
      [] released /\ ~inLifecycle -> "AssetsReleasedOutLifecycle"

\* The inner loop over the versions of one development chart, from index i.
RECURSIVE compareVersions(_, _, _, _, _, _)
compareVersions(rules, devAsset, devVersions, releasedVersions, i, acc) ==
    IF i > Len(devVersions) THEN acc
    ELSE LET devVersion == devVersions[i]
             released == checkIfVersionIsReleased(devVersion.Version, releasedVersions)
             inLifecycle == CheckChartVersionForLifecycle(rules, devVersion.Version)
             b == bucketOf(released, inLifecycle)
         IN  compareVersions(rules, devAsset, devVersions, releasedVersions, i + 1,
                             [acc EXCEPT ![b] = AppendTo(@, devAsset, devVersion)])

\* The outer loop over the development charts, visited in the given order.
RECURSIVE compareCharts(_, _, _, _, _, _)
compareCharts(rules, releasedAssets, developmentAssets, order, j, acc) ==
    IF j > Len(order) THEN acc
    ELSE LET devAsset == order[j]
             releasedVersions == Lookup(releasedAssets, devAsset)
         IN  compareCharts(rules, releasedAssets, developmentAssets, order, j + 1,
                           compareVersions(rules, devAsset, developmentAssets[devAsset],
                                           releasedVersions, 1, acc))

\* s.compareReleasedAndDevAssets(releasedAssets, developmentAssets): the
\* Status with its four cross-branch mappings replaced.
compareReleasedAndDevAssets(s, rules, releasedAssets, developmentAssets, order) ==
    LET empty == [AssetsReleasedInLifecycle |-> EmptyMap,
                  AssetsNotReleasedOutLifecycle |-> EmptyMap,
                  AssetsNotReleasedInLifecycle |-> EmptyMap,
                  AssetsReleasedOutLifecycle |-> EmptyMap]
        r == compareCharts(rules, releasedAssets, developmentAssets, order, 1, empty)
    IN  [s EXCEPT !.AssetsReleasedInLifecycle = r.AssetsReleasedInLifecycle,
                  !.AssetsNotReleasedOutLifecycle = r.AssetsNotReleasedOutLifecycle,
                  !.AssetsNotReleasedInLifecycle = r.AssetsNotReleasedInLifecycle,
                  !.AssetsReleasedOutLifecycle = r.AssetsReleasedOutLifecycle]

\* A nil error.
Nil == <<>>

\* A faulty loop body that does not skip release candidates.
separateVersionKeepingRC(rules, asset, version, acc) ==
    LET toRelease == CheckChartVersionToRelease(rules, version.Version)
    IN  IF toRelease = "error"
          THEN [acc EXCEPT !.err = <<"CheckChartVersionToRelease", version.Version>>]
        ELSE IF toRelease = "release"
          THEN [acc EXCEPT !.assetsToBeReleased = AppendTo(@, asset, version)]
        ELSE [acc EXCEPT !.assetsToBeForwardPorted = AppendTo(@, asset, version)]

\* A faulty loop body that routes by the negated release decision.
separateVersionInverted(rules, asset, version, acc) ==
    LET toRelease == CheckChartVersionToRelease(rules, version.Version)
        isRCVersion == CheckForRCVersion(rules, version.Version)
    IN  IF toRelease = "error"
          THEN [acc EXCEPT !.err = <<"CheckChartVersionToRelease", version.Version>>]
        ELSE IF isRCVersion THEN acc
        ELSE IF toRelease # "release"
          THEN [acc EXCEPT !.assetsToBeReleased = AppendTo(@, asset, version)]
        ELSE [acc EXCEPT !.assetsToBeForwardPorted = AppendTo(@, asset, version)]

\* The body of the inner loop of separateReleaseFromForwardPort for one
\* version: the release decision is asked first and its error ends the
\* operation; a release candidate is skipped; the others are routed.
separateVersion(rules, asset, version, acc) ==
    LET toRelease == CheckChartVersionToRelease(rules, version.Version)
        isRCVersion == CheckForRCVersion(rules, version.Version)
    IN  IF toRelease = "error"
          THEN [acc EXCEPT !.err = <<"CheckChartVersionToRelease", version.Version>>]
        ELSE IF isRCVersion THEN acc
        ELSE IF toRelease = "release"
          THEN [acc EXCEPT !.assetsToBeReleased = AppendTo(@, asset, version)]
        ELSE [acc EXCEPT !.assetsToBeForwardPorted = AppendTo(@, asset, version)]

\* The inner loop over the versions of one chart, from index i; it stops at
\* the first error.
RECURSIVE separateVersions(_, _, _, _, _)
separateVersions(rules, asset, versions, i, acc) ==
    IF acc.err # Nil \/ i > Len(versions) THEN acc
    ELSE separateVersions(rules, asset, versions, i + 1,
                          separateVersion(rules, asset, versions[i], acc))

\* The outer loop over the charts of AssetsNotReleasedInLifecycle.
RECURSIVE separateCharts(_, _, _, _, _)
separateCharts(rules, notReleased, order, j, acc) ==
    IF acc.err # Nil \/ j > Len(order) THEN acc
    ELSE separateCharts(rules, notReleased, order, j + 1,
                        separateVersions(rules, order[j], notReleased[order[j]], 1, acc))

\* s.separateReleaseFromForwardPort(ctx): the error returned and the Status
\* it leaves; on an error the two mappings are not assigned.
separateReleaseFromForwardPort(s, rules, order) ==
    LET r == separateCharts(rules, s.AssetsNotReleasedInLifecycle, order, 1,
                            [err |-> Nil, assetsToBeReleased |-> EmptyMap,
                             assetsToBeForwardPorted |-> EmptyMap])
    IN  IF r.err # Nil THEN [err |-> r.err, status |-> s]
        ELSE [err |-> Nil,
              status |-> [s EXCEPT !.AssetsToBeReleased = r.assetsToBeReleased,
                                   !.AssetsToBeForwardPorted = r.assetsToBeForwardPorted]]

(***************************************************************************)
(* The status run.                                                         *)
(***************************************************************************)
\* s.ld.VR.ProdBranch and s.ld.VR.DevBranch, and a branch that is neither.
ProdBranch == "release-v2"
DevBranch == "dev-v2"
Branches == {ProdBranch, DevBranch, "feature"}

\* The index file of each branch, and the assets of the branch the
\* Dependencies were built on: the scenario of section 8 and a second one
\* in which every chart is released.
IndexStates ==
    {[b \in Branches |->
        CASE b = ProdBranch -> ("nginx" :> <<mkAsset("1.2.0")>>)
          [] b = DevBranch -> ("nginx" :> <<mkAsset("1.2.0"), mkAsset("1.3.0")>>)
                                @@ ("redis" :> <<mkAsset("1.3.0")>>)
          [] OTHER -> ("nginx" :> <<mkAsset("1.3.0")>>)
                        @@ ("redis" :> <<mkAsset("1.2.0"), mkAsset("1.3.0")>>)],
     [b \in Branches |->
        CASE b = ProdBranch -> ("nginx" :> <<mkAsset("1.3.0")>>)
                                 @@ ("redis" :> <<mkAsset("1.2.0")>>)
          [] b = DevBranch -> ("nginx" :> <<mkAsset("1.3.0")>>)
                                @@ ("redis" :> <<mkAsset("1.2.0"), mkAsset("1.3.0")>>)
          [] OTHER -> ("redis" :> <<mkAsset("1.3.0"), mkAsset("1.3.0")>>)]}

\* The three log files of createLogFiles, in the order of their creation.
LogFiles == <<"current-branch.log", "production-x-development.log",
              "released-x-forward-ported.log">>

\* The inner loop of listCurrentAssetsVersionsOnTheCurrentBranch.
\* A faulty same-branch pass that takes every version for one inside the
\* lifecycle.
listVersionsAllInside(rules, asset, versions, i, acc) ==
    IF i > Len(versions) THEN acc
    ELSE [acc EXCEPT !.insideLifecycle =
            (asset :> (Lookup(@, asset) \o SubSeq(versions, i, Len(versions)))) @@ @]

RECURSIVE listVersions(_, _, _, _, _)
listVersions(rules, asset, versions, i, acc) ==
    IF i > Len(versions) THEN acc
    ELSE LET version == versions[i]
             inLifecycle == CheckChartVersionForLifecycle(rules, version.Version)
         IN  listVersions(rules, asset, versions, i + 1,
                 IF inLifecycle
                   THEN [acc EXCEPT !.insideLifecycle = AppendTo(@, asset, version)]
                   ELSE [acc EXCEPT !.outsideLifecycle = AppendTo(@, asset, version)])

RECURSIVE listCharts(_, _, _, _, _)
listCharts(rules, assetsVersionsMap, order, j, acc) ==
    IF j > Len(order) THEN acc
    ELSE listCharts(rules, assetsVersionsMap, order, j + 1,
                    listVersions(rules, order[j], assetsVersionsMap[order[j]], 1, acc))

\* s.listCurrentAssetsVersionsOnTheCurrentBranch()
listCurrentAssetsVersionsOnTheCurrentBranch(s, rules, assetsVersionsMap, order) ==
    LET r == listCharts(rules, assetsVersionsMap, order, 1,
                        [insideLifecycle |-> EmptyMap, outsideLifecycle |-> EmptyMap])
    IN  [s EXCEPT !.AssetsInLifecycleCurrentBranch = r.insideLifecycle,
                  !.AssetsOutLifecycleCurrentBranch = r.outsideLifecycle]

\* The choice of getProdAndDevAssetsFromGit between pull and checkout for
\* the production branch: it reads the branch recorded in s.ld.Git.
prodSwitchOp(ldBranch) ==
    IF ldBranch = ProdBranch THEN "FetchAndPullBranch" ELSE "FetchAndCheckoutBranch"

\* The branch checked out after a git operation on target: a failed
\* operation and a pull leave the working tree on its branch.
branchAfter(op, target, current, ok) ==
    IF ok /\ op \in {"FetchAndCheckoutBranch", "CheckoutBranch"} THEN target ELSE current

\* What getStatus returns when a step of it failed: return status, err.
getStatusOnError(s, e) == [status |-> <<s>>, err |-> e]

\* What CheckLifecycleStatusAndSave returns when getStatus returned g with
\* an error: return nil, err.
returnOnGetStatusError(g) == [status |-> <<>>, err |-> g.err]

\* A faulty filter that narrows the two current-branch mappings only.
filterByChartCurrentBranchOnly(s, chart) ==
    IF chart = "" THEN s
    ELSE [f \in DOMAIN s |->
            IF f \in {"AssetsInLifecycleCurrentBranch", "AssetsOutLifecycleCurrentBranch"}
              THEN (chart :> Lookup(s[f], chart))
              ELSE s[f]]

\* The optional filter of CheckLifecycleStatusAndSave by one chart: each
\* mapping becomes map[string][]Asset{chart: m[chart]}.
filterByChart(s, chart) ==
    IF chart = "" THEN s
    ELSE [f \in DOMAIN s |-> (chart :> Lookup(s[f], chart))]

(***************************************************************************)
(* The patch engine.                                                       *)
(***************************************************************************)
\* A line of text is the sequence of its whitespace-separated words, and a
\* text is a sequence of lines.  A line that begins with white space, as
\* the context lines of a unified diff do, has that white space as its
\* first element, before its words.
Indent == " "

\* A word of more characters than a module can spell out, and their number.
LongValue == "AAAA...A"
LongValueLen == 70000

\* Two outputs of diff -uN for the same change of Chart.yaml, made at
\* different times, and one for a change that keeps the line
\* "--- title line", removes the line "-- generated file" and adds the line
\* "++ edited file".
DiffOfChartYamlAt(t1, t2) ==
    << <<"---", "a/Chart.yaml", t1, "+0000">>,
       <<"+++", "b/Chart.yaml", t2, "+0000">>,
       <<"@@", "-1", "+1", "@@">>,
       <<"-version:", "1.2.0">>,
       <<"+version:", "1.3.0">> >>

DiffOfNotesAt(t1, t2) ==
    << <<"---", "a/NOTES.txt", t1, "+0000">>,
       <<"+++", "b/NOTES.txt", t2, "+0000">>,
       <<"@@", "-1,2", "+1,2", "@@">>,
       <<Indent, "---", "title", "line">>,
       <<"---", "generated", "file">>,
       <<"+++", "edited", "file">> >>

DiffOfNotes == DiffOfNotesAt("2024-01-01", "2024-01-02")

\* The differences of two files, the first with a value of LongValueLen
\* characters on one line.
DiffOfValuesAt(t1, t2) ==
    << <<"---", "a/values.yaml", t1, "+0000">>,
       <<"+++", "b/values.yaml", t2, "+0000">>,
       <<"@@", "-1", "+1", "@@">>,
       <<"-data:", LongValue>>,
       <<"+data:", "short">> >>
    \o DiffOfChartYamlAt(t1, t2)

DiffTexts ==
    {DiffOfChartYamlAt("2024-01-01", "2024-01-02"),
     DiffOfNotes,
     DiffOfNotesAt("2024-03-01", "2024-03-02"),
     DiffOfValuesAt("2024-01-01", "2024-01-02")}

\* The number of lines of the longest of them.
LongestDiff == CHOOSE n \in {Len(d) : d \in DiffTexts} : \A d \in DiffTexts : Len(d) <= n

\* What running diff -uN -x *.tgz -x *.lock src dst can end in: the command
\* cannot be run; exit status 0 with no output for identical trees; exit
\* status 1 with the differences on its output; exit status 2 for trouble,
\* with no output or with the output written before the trouble.
DiffRuns ==
    {[started |-> FALSE, exit |-> 0, out |-> <<>>],
     [started |-> TRUE, exit |-> 0, out |-> <<>>]}
    \cup {[started |-> TRUE, exit |-> 1, out |-> d] : d \in DiffTexts}
    \cup {[started |-> TRUE, exit |-> 2, out |-> d] : d \in {DiffOfNotes, <<>>}}

\* The outputs of <tool> --version, each a sequence of characters.
\* "diff (GNU diffutils) 3.8"
GnuDiffVersion ==
    <<"d", "i", "f", "f", " ", "(", "G", "N", "U", " ", "d", "i", "f", "f",
      "u", "t", "i", "l", "s", ")", " ", "3", ".", "8">>

\* "Apple diff (based on FreeBSD diff)"
AppleDiffVersion ==
    <<"A", "p", "p", "l", "e", " ", "d", "i", "f", "f", " ", "(", "b", "a",
      "s", "e", "d", " ", "o", "n", " ", "F", "r", "e", "e", "B", "S", "D",
      " ", "d", "i", "f", "f", ")">>

\* "diff (FreeBSD) 20220309"
FreeBSDDiffVersion ==
    <<"d", "i", "f", "f", " ", "(", "F", "r", "e", "e", "B", "S", "D", ")",
      " ", "2", "0", "2", "2", "0", "3", "0", "9">>

\* "patch 2.0-12u11-Apple"
ApplePatchVersion ==
    <<"p", "a", "t", "c", "h", " ", "2", ".", "0", "-", "1", "2", "u", "1",
      "1", "-", "A", "p", "p", "l", "e">>

\* What <tool> --version can end in: a failure, or its output.
VersionProbes ==
    {[ok |-> FALSE, out |-> <<>>]}
    \cup {[ok |-> TRUE, out |-> v] :
            v \in {GnuDiffVersion, AppleDiffVersion, FreeBSDDiffVersion, ApplePatchVersion}}

\* The substrings checkDependencyPackage looks for.
Apple == <<"A", "p", "p", "l", "e">>
FreeBSD == <<"F", "r", "e", "e", "B", "S", "D">>

\* strings.Contains(s, substr) on sequences of characters.
Contains(s, substr) ==
    \E k \in 0..(Len(s) - Len(substr)) : SubSeq(s, k + 1, k + Len(substr)) = substr

\* A faulty check that looks for "Apple" only.
checkDependencyPackageAppleOnly(probe) ==
    IF ~probe.ok THEN <<"version probe failed">>
    ELSE IF Contains(probe.out, Apple) THEN <<"detected Apple/FreeBSD version">>
    ELSE Nil

\* checkDependencyPackage: the error it returns, or Nil.
checkDependencyPackage(probe) ==
    IF ~probe.ok THEN <<"version probe failed">>
    ELSE IF Contains(probe.out, Apple) \/ Contains(probe.out, FreeBSD)
      THEN <<"detected Apple/FreeBSD version">>
    ELSE Nil

\* A faulty line rewriting that strips the "---" lines only.
stripTimestampOfSourceOnly(line) ==
    IF Len(line) >= 2 /\ line[1] = "---" THEN <<"---", line[2]>> ELSE line

\* One line of removeTimestamps: fmt.Sscanf(line, "--- %s", &path) matches
\* a line that starts with "---", white space and a word (a line that
\* begins with white space has Indent as its first element and is not
\* matched), and the line becomes "--- " followed by that word; the same
\* for "+++".
stripTimestamp(line) ==
    LET afterMinus == IF Len(line) >= 2 /\ line[1] = "---" THEN <<"---", line[2]>> ELSE line
    IN  IF Len(afterMinus) >= 2 /\ afterMinus[1] = "+++" THEN <<"+++", afterMinus[2]>>
        ELSE afterMinus

\* bufio.MaxScanTokenSize, the buffer of the bufio.Scanner of
\* removeTimestamps.
MaxScanTokenSize == 65536

\* The number of bytes of a word, and of words with one separator between
\* two of them.
WordBytes(word) == IF word = LongValue THEN LongValueLen ELSE Len(word)
RECURSIVE WordsBytes(_)
WordsBytes(words) ==
    IF words = <<>> THEN 0
    ELSE WordBytes(Head(words)) + (IF Len(words) > 1 THEN 1 ELSE 0)
           + WordsBytes(Tail(words))

\* len(s.Text()): the number of bytes of a line, which are its leading
\* white space, when it has some, followed at once by its words.
LineBytes(line) ==
    IF line # <<>> /\ Head(line) = Indent
      THEN Len(Indent) + WordsBytes(Tail(line))
      ELSE WordsBytes(line)

\* The lines s.Scan() yields: the scan ends, with an error nobody reads, at
\* the first line that does not fit in the buffer.
scanned(in) ==
    LET tooLong == {i \in DOMAIN in : LineBytes(in[i]) >= MaxScanTokenSize}
        stop == IF tooLong = {} THEN Len(in) + 1
                ELSE CHOOSE i \in tooLong : \A j \in tooLong : i <= j
    IN  SubSeq(in, 1, stop - 1)

\* removeTimestamps: every scanned line, in order, each followed by a
\* newline.
removeTimestamps(in) ==
    LET lines == scanned(in)
    IN  [i \in DOMAIN lines |-> stripTimestamp(lines[i])]

\* A file of the filesystem: absent, or its lines.
NoFile == [exists |-> FALSE, lines |-> <<>>]
FileOf(lines) == [exists |-> TRUE, lines |-> lines]

\* A faulty exit handling that takes every failure of cmd.Run(), exit
\* status 1 included, for a hard error.
isHardErrorOnAnyExit(run) == ~run.started \/ run.exit # 0

\* The exit handling of GeneratePatch: whether the error of cmd.Run() is a
\* hard error, that is anything but an ExitError with exit status 1.
isHardError(run) == ~run.started \/ run.exit \notin {0, 1}

\* A faulty check that never finds the buffer empty.
noDifferencesNever(run) == FALSE

\* buf.Len() == 0: diff wrote nothing.
noDifferences(run) == Len(run.out) = 0

\* GeneratePatch(ctx, fs, patchPath, srcPath, dstPath) on the file at
\* patchPath, given what the environment does: whether diff is on the PATH,
\* the version probe, the run of diff, whether CreateFileAndDirs succeeds
\* and how many lines WriteTo writes before it fails (all of them when it
\* succeeds).  The result is the return values, the file afterwards and the
\* commands executed.
GeneratePatch(file, found, probe, run, createOk, written) ==
    LET out == removeTimestamps(run.out)
    IN  IF ~found
          THEN [patchWritten |-> FALSE, err |-> <<"GNU diff is not available">>,
                file |-> file, cmds |-> <<>>]
        ELSE IF checkDependencyPackage(probe) # Nil
          THEN [patchWritten |-> FALSE, err |-> checkDependencyPackage(probe),
                file |-> file, cmds |-> <<"diff --version">>]
        ELSE IF isHardError(run)
          THEN [patchWritten |-> FALSE, err |-> <<"diff", run.started, run.exit>>,
                file |-> file, cmds |-> <<"diff --version", "diff -uN">>]
        ELSE IF noDifferences(run)
          THEN [patchWritten |-> FALSE, err |-> Nil,
                file |-> file, cmds |-> <<"diff --version", "diff -uN">>]
        ELSE IF ~createOk
          THEN [patchWritten |-> FALSE, err |-> <<"CreateFileAndDirs">>,
                file |-> file, cmds |-> <<"diff --version", "diff -uN">>]
        ELSE IF written < Len(out)
          THEN [patchWritten |-> FALSE, err |-> <<"unable to write diff to file">>,
                file |-> FileOf(SubSeq(out, 1, written)),
                cmds |-> <<"diff --version", "diff -uN">>]
        ELSE [patchWritten |-> TRUE, err |-> Nil,
              file |-> FileOf(out), cmds |-> <<"diff --version", "diff -uN">>]

\* The states of the destination directory of a patch: as it was, with
\* some of the hunks applied, with all of them applied.
DestStates == {"original", "partly patched", "patched"}

\* What running patch -E -p1 on a destination directory in state dest can
\* end in: the command cannot be run; exit status 0 with every hunk
\* applied; exit status 1 with some hunks rejected; exit status 2 for
\* trouble, with the directory as it was or partly patched.  out is what
\* the tool wrote on its standard output.
PatchRuns(dest) ==
    {[started |-> FALSE, exit |-> 0, out |-> <<>>, dest |-> dest],
     [started |-> TRUE, exit |-> 0, out |-> <<"patching file Chart.yaml">>,
      dest |-> "patched"],
     [started |-> TRUE, exit |-> 1,
      out |-> <<"patching file Chart.yaml", "Hunk #1 FAILED at 1.">>,
      dest |-> "partly patched"],
     [started |-> TRUE, exit |-> 1, out |-> <<"Hunk #1 FAILED at 1.">>, dest |-> dest],
     [started |-> TRUE, exit |-> 2, out |-> <<>>, dest |-> dest],
     [started |-> TRUE, exit |-> 2, out |-> <<"patching file Chart.yaml">>,
      dest |-> "partly patched"]}

\* A faulty error check that takes only trouble (exit status 2 and above)
\* for a failure of the patch subprocess.
patchFailedOnTroubleOnly(run) == ~run.started \/ run.exit > 1

\* err = cmd.Run(); err != nil: the patch subprocess failed.
patchFailed(run) == ~run.started \/ run.exit # 0

\* ApplyPatch(ctx, fs, patchPath, destDir) on the file at patchPath and the
\* destination directory in state dest, given what the environment does:
\* whether patch is on the PATH, the version probe, whether the patch file
\* opens and the run of patch.  The result is the error returned, the
\* destination afterwards, the commands executed and the log entries.
ApplyPatch(file, dest, found, probe, openOk, run) ==
    LET start == << <<"applying patches">> >>
    IN  IF ~found
          THEN [err |-> <<"GNU patch is not available">>, dest |-> dest,
                cmds |-> <<>>, log |-> start]
        ELSE IF checkDependencyPackage(probe) # Nil
          THEN [err |-> checkDependencyPackage(probe), dest |-> dest,
                cmds |-> <<"patch --version">>, log |-> start]
        ELSE IF ~openOk
          THEN [err |-> <<"Open">>, dest |-> dest,
                cmds |-> <<"patch --version">>, log |-> start]
        ELSE IF patchFailed(run)
          THEN [err |-> <<"patch", run.started, run.exit>>, dest |-> run.dest,
                cmds |-> <<"patch --version", "patch -E -p1">>,
                log |-> Append(start, <<"unable to apply patch", run.out>>)]
        ELSE [err |-> Nil, dest |-> run.dest,
              cmds |-> <<"patch --version", "patch -E -p1">>, log |-> start]

(***************************************************************************)
(* The Chart of a package.                                                 *)
(***************************************************************************)
\* The upstream versions a chart can have.
UpstreamVersions == {"4.0.1", "4.1.0"}

\* The steps of Prepare that can fail, in order, for a local chart and for
\* a chart with an upstream.
LocalPrepareSteps == <<"StandardizeChartYaml", "PrepareDependencies">>
UpstreamPrepareSteps ==
    <<"RemoveAll", "Pull", "ConvertToHelmChart", "GetHelmMetadataVersion",
      "PrepareDependencies", "ApplyChanges">>

\* The position of step in steps, 0 when it is not one of them.
StepIndex(steps, step) ==
    IF \E i \in DOMAIN steps : steps[i] = step
      THEN CHOOSE i \in DOMAIN steps : steps[i] = step
      ELSE 0

\* The body of Prepare for a chart that is local or not, when the step
\* failAt fails ("" when none does) and helm.GetHelmMetadataVersion returns
\* read: the error returned and the local upstreamChartVersion at return.
prepareSteps(local, failAt, read) ==
    LET steps == IF local THEN LocalPrepareSteps ELSE UpstreamPrepareSteps
        failed == StepIndex(steps, failAt)
        readAt == StepIndex(steps, "GetHelmMetadataVersion")
    IN  [err |-> IF failed = 0 THEN Nil ELSE <<failAt>>,
         upstreamChartVersion |->
           IF readAt # 0 /\ (failed = 0 \/ failed >= readAt) THEN read ELSE ""]

\* A faulty Prepare that sets the field only when it returns no error.
PrepareSettingOnSuccess(c, failAt, read) ==
    LET r == prepareSteps(c.local, failAt, read)
    IN  [err |-> r.err,
         c |-> IF r.err = Nil
                 THEN [c EXCEPT !.UpstreamChartVersion = <<r.upstreamChartVersion>>]
                 ELSE c]

\* c.Prepare(ctx, rootFs, pkgFs): the deferred assignment sets
\* c.UpstreamChartVersion to the address of the local on every return.
Prepare(c, failAt, read) ==
    LET r == prepareSteps(c.local, failAt, read)
    IN  [err |-> r.err,
         c |-> [c EXCEPT !.UpstreamChartVersion = <<r.upstreamChartVersion>>]]

\* c.GenerateChart(...): the error returned, and the upstream version
\* handed to helm.ExportHelmChart, when exportOk tells whether it succeeds.
GenerateChart(c, exportOk) ==
    IF c.UpstreamChartVersion = Nil
      THEN [err |-> <<"never been prepared">>, exported |-> <<>>]
    ELSE IF ~exportOk
      THEN [err |-> <<"ExportHelmChart">>, exported |-> c.UpstreamChartVersion]
    ELSE [err |-> Nil, exported |-> c.UpstreamChartVersion]

(***************************************************************************)
(* The repository tree: charts/ and assets/.                               *)
(***************************************************************************)
\* A path is the sequence of its components, relative to the repository
\* root; "." is the empty sequence.  A file of the tree is its path and,
\* for a Chart.yaml and for a chart archive, the name and version of the
\* chart it describes.  The directories of the tree are those of its files.
RepositoryChartsDir == "charts"
RepositoryAssetsDir == "assets"
Dot == <<>>

\* filepath.Dir and filepath.Base of a path.
Dir(path) == IF Len(path) <= 1 THEN Dot ELSE SubSeq(path, 1, Len(path) - 1)
Base(path) == IF path = Dot THEN "." ELSE path[Len(path)]

\* filesystem.MovePath(path, root, ""): the path relative to root.
MovePath(path, root) == Tail(path)

\* The name of the archive that helm packages for a chart.
TgzName(name, version) == name \o "-" \o version \o ".tgz"

File(path, name, version) == [path |-> path, name |-> name, version |-> version]
ChartYaml(dir, name, version) == File(Append(dir, "Chart.yaml"), name, version)
Tgz(dir, name, version) == File(Append(dir, TgzName(name, version)), name, version)

\* The directories of a set of files, and what filesystem.WalkDir visits
\* below root: every directory and every file.
DirsOf(files) == UNION {{SubSeq(f.path, 1, k) : k \in 1..(Len(f.path) - 1)} : f \in files}
WalkEntries(files, root) ==
    {[path |-> f.path, isDir |-> FALSE] : f \in {g \in files : g.path[1] = root}}
    \cup {[path |-> d, isDir |-> TRUE] : d \in {e \in DirsOf(files) : e[1] = root}}

\* The entries of a set in a sequence, in no particular order.
RECURSIVE SeqOf(_)
SeqOf(S) ==
    IF S = {} THEN <<>>
    ELSE LET x == CHOOSE y \in S : TRUE IN <<x>> \o SeqOf(S \ {x})

\* The orders in which filesystem.WalkDir can hand the entries below root
\* to a callback that acts on entries of three components only: those
\* entries in any order, after the others.
WalkOrders(files, root) ==
    LET entries == WalkEntries(files, root)
        acted == {e \in entries : Len(e.path) = 3}
    IN  {SeqOf(entries \ acted) \o o : o \in Orders(acted)}

\* The files of a set that are not below dir: filesystem.RemoveAll(dir).
RemoveAll(files, dir) ==
    {f \in files : ~(Len(f.path) >= Len(dir) /\ SubSeq(f.path, 1, Len(dir)) = dir)}

\* The chart that helmLoader.Load finds in directory dir of the tree: a
\* sequence of at most one Chart.yaml.
LoadDir(files, dir) ==
    LET found == {f \in files : f.path = Append(dir, "Chart.yaml")}
    IN  IF found = {} THEN <<>> ELSE <<CHOOSE f \in found : TRUE>>

\* filepath.Ext(path) == ".tgz", for the file names of the model.
IsTgz(path) == \E f \in {"old.tgz"} \cup
                        {TgzName(n, v) : n \in {"nginx", "redis", "sub", "leaf"},
                                         v \in {"1.2.0", "1.3.0", "0.1.0"}} :
                 Base(path) = f

(***************************************************************************)
(* Archiving charts into assets and dumping assets into charts.            *)
(***************************************************************************)
\* A faulty filter that compares with the directory only.
passesFilterByDirOnly(specific, path) ==
    ~(Len(specific) > 0 /\ specific # Dir(path))

\* Whether the filter of ArchiveCharts and DumpAssets lets a path through:
\* it is empty, or equal to the path or to its directory.
passesFilter(specific, path) ==
    ~(Len(specific) > 0 /\ specific # path /\ specific # Dir(path))

\* unzipAsset of DumpAssets on one entry of the walk: acc holds the tree,
\* foundAsset, the assets unarchived and the error; failing is the set of
\* the pairs of a routine (Load, RemoveAll, UnarchiveTgz, GenerateArchive)
\* and a path on which it fails.  A failing UnarchiveTgz comes after the
\* chart's directory was removed.
unzipAsset(acc, specificAsset, entry, failing) ==
    IF entry.isDir \/ Len(entry.path) # 3 \/ ~IsTgz(entry.path) THEN acc
    ELSE LET assetPath == MovePath(entry.path, RepositoryAssetsDir)
         IN  IF ~passesFilter(specificAsset, assetPath) THEN acc
             ELSE LET asset == CHOOSE f \in acc.files : f.path = entry.path
                      chartChartsDirpath == <<RepositoryChartsDir, asset.name, asset.version>>
                      found == [acc EXCEPT !.found = TRUE]
                  IN  IF <<"Load", entry.path>> \in failing
                        THEN [found EXCEPT !.err = <<"could not load Helm chart", entry.path>>]
                      ELSE IF <<"RemoveAll", chartChartsDirpath>> \in failing
                        THEN [found EXCEPT !.err = <<"failed to clean directory for charts at",
                                                    chartChartsDirpath>>]
                      ELSE IF <<"UnarchiveTgz", entry.path>> \in failing
                        THEN [found EXCEPT !.files = RemoveAll(@, chartChartsDirpath),
                                           !.err = <<"UnarchiveTgz", entry.path>>]
                      ELSE [found EXCEPT
                              !.files = RemoveAll(@, chartChartsDirpath)
                                          \cup {ChartYaml(chartChartsDirpath, asset.name,
                                                          asset.version)},
                              !.done = Append(@, entry.path)]

\* filesystem.WalkDir over the entries in order, with a callback that
\* stops the walk at the first error.
RECURSIVE walkAssets(_, _, _, _, _)
walkAssets(acc, specificAsset, order, i, failing) ==
    IF i > Len(order) \/ acc.err # Nil THEN acc
    ELSE walkAssets(unzipAsset(acc, specificAsset, order[i], failing),
                    specificAsset, order, i + 1, failing)

\* DumpAssets(ctx, repoRoot, specificAsset) on the tree files, walking the
\* entries of assets/ in order; walkOk tells whether the walk itself works.
DumpAssets(files, specificAsset, order, walkOk, failing) ==
    LET start == [files |-> files, found |-> FALSE, done |-> <<>>, err |-> Nil]
        r == IF walkOk THEN walkAssets(start, specificAsset, order, 1, failing)
             ELSE [start EXCEPT !.err = <<"WalkDir">>]
    IN  IF r.err # Nil
          THEN [r EXCEPT !.err = <<"encountered error while trying to zip charts">> \o @]
        ELSE IF Len(specificAsset) > 0 /\ ~r.found
          THEN [r EXCEPT !.err = <<"could not find asset">>]
        ELSE r

\* Any order of the walk of assets/, for the nested call of DumpAssets on
\* one asset, which at most one entry passes.
SomeAssetsOrder(files) == SeqOf(WalkEntries(files, RepositoryAssetsDir))

\* zipChart of ArchiveCharts on one entry of the walk.
zipChart(acc, specificChart, entry, failing) ==
    IF ~entry.isDir \/ Len(entry.path) # 3 THEN acc
    ELSE LET chartVersionPath == MovePath(entry.path, RepositoryChartsDir)
         IN  IF ~passesFilter(specificChart, chartVersionPath) THEN acc
             ELSE LET found == [acc EXCEPT !.found = TRUE]
                      chart == LoadDir(acc.files, entry.path)
                  IN  IF chart = <<>> \/ <<"GenerateArchive", entry.path>> \in failing
                        THEN [found EXCEPT !.err = <<"encountered error while trying to update archive", entry.path>>]
                      ELSE LET tgz == Tgz(<<RepositoryAssetsDir>> \o Dir(chartVersionPath),
                                          chart[1].name, chart[1].version)
                               archived == {f \in acc.files : f.path # tgz.path} \cup {tgz}
                               currentAsset == MovePath(tgz.path, RepositoryAssetsDir)
                               d == DumpAssets(archived, currentAsset,
                                               SomeAssetsOrder(archived), TRUE, failing)
                           IN  IF d.err # Nil
                                 THEN [found EXCEPT !.files = d.files,
                                                    !.err = <<"encountered error while trying to update chart", entry.path>>]
                               ELSE [found EXCEPT !.files = d.files,
                                                  !.done = Append(@, entry.path)]

RECURSIVE walkCharts(_, _, _, _, _)
walkCharts(acc, specificChart, order, i, failing) ==
    IF i > Len(order) \/ acc.err # Nil THEN acc
    ELSE walkCharts(zipChart(acc, specificChart, order[i], failing),
                    specificChart, order, i + 1, failing)

\* ArchiveCharts(ctx, repoRoot, specificChart) on the tree files, walking
\* the entries of charts/ in order.
ArchiveCharts(files, specificChart, order, walkOk, failing) ==
    LET start == [files |-> files, found |-> FALSE, done |-> <<>>, err |-> Nil]
        r == IF walkOk THEN walkCharts(start, specificChart, order, 1, failing)
             ELSE [start EXCEPT !.err = <<"WalkDir">>]
    IN  IF r.err # Nil
          THEN [r EXCEPT !.err = <<"encountered error while trying to zip charts">> \o @]
        ELSE IF Len(specificChart) > 0 /\ ~r.found
          THEN [r EXCEPT !.err = <<"could not find chart">>]
        ELSE r

\* The directories of the package after c.Prepare on the directories fs,
\* when the step failAt fails ("" when none does) and a failing Pull has
\* left something in c.WorkingDir or not (pulled).  A local chart is
\* prepared in place.  For a chart with an upstream, RemoveAll removes the
\* working directory, and Pull (MkdirAll and UnarchiveTgz of
\* Registry.Pull) creates it again; the later steps write below it.
prepareDirs(c, fs, failAt, pulled) ==
    LET failed == StepIndex(UpstreamPrepareSteps, failAt)
        removed == [fs EXCEPT !.WorkingDir = "absent"]
        pulledInto == [fs EXCEPT !.WorkingDir = "present"]
    IN  IF c.local THEN fs
        ELSE IF failed = StepIndex(UpstreamPrepareSteps, "RemoveAll") THEN fs
        ELSE IF failed = StepIndex(UpstreamPrepareSteps, "Pull")
          THEN IF pulled THEN pulledInto ELSE removed
        ELSE pulledInto

\* The chart of the package and the version it is exported at.
PackageChart == "nginx"
PackageVersion == "1.2.0"

\* helm.ExportHelmChart on the repository tree r, when it succeeds: the
\* chart stored in the charts and the assets directory.
ExportHelmChart(r) ==
    [r EXCEPT
       !.charts = @ \cup {ChartYaml(<<RepositoryChartsDir, PackageChart, PackageVersion>>,
                                    PackageChart, PackageVersion)},
       !.assets = @ \cup {Tgz(<<RepositoryAssetsDir, PackageChart>>,
                              PackageChart, PackageVersion)}]

\* The steps of c.GeneratePatch on a chart that is not local, in order.
GeneratePatchSteps ==
    <<"PathExists", "StandardizeChartYaml", "Pull", "ConvertToHelmChart",
      "PrepareDependencies", "GenerateChanges">>

\* c.GeneratePatch(ctx, rootFs, pkgFs) on the directories fs, when the step
\* failAt fails ("" when none does), a failing Pull has written into
\* c.OriginalDir() or not (pulled), and the deferred RemoveAll of
\* c.OriginalDir(), whose error is dropped, removes it or not (removeOk):
\* the error returned and the directories at return. The RemoveAll is
\* deferred once PrepareDependencies has returned without error.
ChartGeneratePatch(c, fs, failAt, pulled, removeOk) ==
    LET failed == StepIndex(GeneratePatchSteps, failAt)
        fails(step) == failed = StepIndex(GeneratePatchSteps, step)
        withOriginal == [fs EXCEPT !.OriginalDir = "present"]
        atDeferred == [fs EXCEPT !.OriginalDir = IF removeOk THEN "absent" ELSE "present"]
    IN  IF c.local THEN [err |-> Nil, fs |-> fs]
        ELSE IF fails("PathExists") THEN [err |-> <<"PathExists">>, fs |-> fs]
        ELSE IF fs.WorkingDir = "absent"
          THEN [err |-> <<"working directory has not been prepared yet">>, fs |-> fs]
        ELSE IF fails("StandardizeChartYaml")
          THEN [err |-> <<"StandardizeChartYaml">>, fs |-> fs]
        ELSE IF fails("Pull")
          THEN [err |-> <<"Pull">>, fs |-> IF pulled THEN withOriginal ELSE fs]
        ELSE IF fails("ConvertToHelmChart")
          THEN [err |-> <<"ConvertToHelmChart">>, fs |-> withOriginal]
        ELSE IF fails("PrepareDependencies")
          THEN [err |-> <<"PrepareDependencies">>, fs |-> withOriginal]
        ELSE IF fails("GenerateChanges")
          THEN [err |-> <<"GenerateChanges">>, fs |-> atDeferred]
        ELSE [err |-> Nil, fs |-> atDeferred]

(***************************************************************************)
(* Standardizing a repository from its charts.                             *)
(***************************************************************************)
\* delete(m, k) of a Go map.
Delete(m, k) == [x \in DOMAIN m \ {k} |-> m[x]]

\* collectAllValidCharts over the walk of charts/: the directory of every
\* Chart.yaml, with the chart loaded from it.
collectAllValidCharts(files) ==
    LET yamls == {f \in files : /\ f.path[1] = RepositoryChartsDir
                                /\ Base(f.path) = "Chart.yaml"}
    IN  [chartPath \in {Dir(f.path) : f \in yamls} |->
           LoadDir(files, chartPath)[1]]

\* A faulty search for a collected ancestor that looks two directories up
\* at most.
climbTwoUp(m, chartPath, chartPathDir) ==
    LET up1 == Dir(chartPathDir)
        up2 == Dir(up1)
    IN  IF up1 # Dot /\ up1 \in DOMAIN m THEN Delete(m, chartPath)
        ELSE IF up1 # Dot /\ up2 # Dot /\ up2 \in DOMAIN m THEN Delete(m, chartPath)
        ELSE m

\* The inner loop of the subchart removal for chartPath: the directories
\* above it are looked up in the map as it is now, up to ".".
RECURSIVE climb(_, _, _)
climb(m, chartPath, chartPathDir) ==
    LET up == Dir(chartPathDir)
    IN  IF up = Dot THEN m
        ELSE IF up \in DOMAIN m THEN Delete(m, chartPath)
        ELSE climb(m, chartPath, up)

\* The subchart removal loop: range over the map in some order; an entry
\* deleted before it is reached is not produced.
RECURSIVE removeSubcharts(_, _, _)
removeSubcharts(m, order, j) ==
    IF j > Len(order) THEN m
    ELSE IF order[j] \notin DOMAIN m THEN removeSubcharts(m, order, j + 1)
    ELSE removeSubcharts(climb(m, order[j], order[j]), order, j + 1)

\* fmt.Sprintf("%s-%s", chart.Metadata.Name, chart.Metadata.Version)
chartVersionKey(chart) == chart.name \o "-" \o chart.version

\* A faulty uniqueness check that finds no conflict.
findConflictNever(m, order, j, targetChartsVersions) == Nil

\* The uniqueness loop: the conflict error of the first chart whose name
\* and version are already declared by a chart seen before, or Nil.
RECURSIVE findConflict(_, _, _, _)
findConflict(m, order, j, targetChartsVersions) ==
    IF j > Len(order) THEN Nil
    ELSE LET chartPath == order[j]
             chartVersion == chartVersionKey(m[chartPath])
         IN  IF chartVersion \notin DOMAIN targetChartsVersions
               THEN findConflict(m, order, j + 1,
                                 (chartVersion :> chartPath) @@ targetChartsVersions)
               ELSE <<"chart is declared in", targetChartsVersions[chartVersion], chartPath>>

\* helm.GenerateArchive of the chart at chartPath into assets/{name}: the
\* archive added to the tree.
archiveOf(chart) == Tgz(<<RepositoryAssetsDir, chart.name>>, chart.name, chart.version)

(***************************************************************************)
(* Asset file names.                                                       *)
(***************************************************************************)
\* A file name is the sequence of its characters.
TgzSuffix == <<".", "t", "g", "z">>
Digits == {"1", "2"}

\* strings.HasSuffix(name, suffix)
HasSuffix(name, suffix) ==
    /\ Len(name) >= Len(suffix)
    /\ SubSeq(name, Len(name) - Len(suffix) + 1, Len(name)) = suffix

\* unicode.IsDigit(rune(b))
IsDigit(ch) == ch \in Digits

\* The loop of getChartNameAndVersion on the stem, at the 0-based index i:
\* it reads stem[i+1], which is out of range for the last i.
RECURSIVE scanForDigit(_, _)
scanForDigit(stem, i) ==
    IF ~(i < Len(stem))
      THEN [name |-> <<>>, version |-> <<>>,
            err |-> "could not extract details from filename", panic |-> FALSE]
    ELSE IF i + 1 >= Len(stem)
      THEN [name |-> <<>>, version |-> <<>>, err |-> "", panic |-> TRUE]
    ELSE IF IsDigit(stem[i + 2])
      THEN [name |-> SubSeq(stem, 1, i), version |-> SubSeq(stem, i + 2, Len(stem)),
            err |-> "", panic |-> FALSE]
    ELSE scanForDigit(stem, i + 1)

\* getChartNameAndVersion(filename): the values returned, or the panic of
\* an index out of range.
getChartNameAndVersion(name) ==
    IF HasSuffix(name, TgzSuffix)
      THEN scanForDigit(SubSeq(name, 1, Len(name) - 4), 0)
      ELSE [name |-> <<>>, version |-> <<>>,
            err |-> "file does not have a .tgz suffix", panic |-> FALSE]

(***************************************************************************)
(* State.                                                                  *)
(***************************************************************************)
VARIABLES
    vr,              \* ld.VR: the lifecycle policy
    status,          \* the Status object being computed
    releasedAssets,  \* the production mapping read from the index
    devAssets,       \* the development mapping read from the index
    err,             \* the error of the last operation, or Nil
    pc,              \* the position of the computation
    ldGitBranch,     \* ld.Git.Branch: the branch recorded in the Dependencies
    ldAssets,        \* ld.AssetsVersionsMap
    index,           \* the index file of every branch
    repoBranch,      \* the branch the working tree is on
    startBranch,     \* the branch the working tree was on when the run began
    oldCurrentBranch,\* the local of listProdAndDevAssets
    chart,           \* the chart argument of CheckLifecycleStatusAndSave
    ret,             \* what the last run returned: [status, err]
    events,          \* the steps of the current run, in order
    runs,            \* the number of runs started
    logs,            \* the state of each log file
    stateFile,       \* whether the state snapshot has been persisted
    patchFile,       \* the file at patchPath
    gp,              \* the last call of GeneratePatch: its inputs and results
    persisted,       \* the patches written so far: diff output and file
    destDir,         \* the state of the destination directory
    ap,              \* the last call of ApplyPatch: its inputs and results
    chartObj,        \* a Chart of a package: its upstream kind and UpstreamChartVersion
    repo,            \* the repository tree: charts/, assets/ and the index
    targetChartPaths,\* the map of standardizeAssetsFromCharts
    filename,        \* the argument of getChartNameAndVersion
    call,            \* the last call of an operation on the repository
    trail,           \* the calls and steps made so far, in order
    pkgFs            \* the directories of a package: working and original

classVars_data == <<vr, status, releasedAssets, devAssets, err>>
classVars == <<classVars_data, pc>>
runVars == <<ldGitBranch, ldAssets, index, repoBranch, startBranch, oldCurrentBranch,
             chart, ret, events, runs, logs, stateFile>>
patchVars == <<patchFile, gp, persisted, destDir, ap>>
pkgVars == <<chartObj, repo, targetChartPaths, filename, call, trail, pkgFs>>
vars == <<classVars, runVars, patchVars, pkgVars>>

NoReturn == [status |-> <<>>, err |-> Nil]

\* The record of a call of GeneratePatch, and no call.
NoCall ==
    [called |-> FALSE, before |-> NoFile, found |-> FALSE,
     probe |-> [ok |-> FALSE, out |-> <<>>],
     run |-> [started |-> FALSE, exit |-> 0, out |-> <<>>],
     createOk |-> FALSE, written |-> 0,
     patchWritten |-> FALSE, err |-> Nil, cmds |-> <<>>]

\* The record of a call of ApplyPatch, and no call.
NoApply ==
    [called |-> FALSE, file |-> NoFile, before |-> "original", found |-> FALSE,
     probe |-> [ok |-> FALSE, out |-> <<>>], openOk |-> FALSE,
     run |-> [started |-> FALSE, exit |-> 0, out |-> <<>>, dest |-> "original"],
     err |-> Nil, cmds |-> <<>>, log |-> <<>>]

\* The patch variables when the patch engine is not modelled.
PatchIdle ==
    /\ patchFile = NoFile
    /\ gp = NoCall
    /\ persisted = {}
    /\ destDir = "original"
    /\ ap = NoApply
NoLogs == [f \in {LogFiles[i] : i \in DOMAIN LogFiles} |-> "absent"]

\* A repository with nothing in it.
EmptyRepo == [charts |-> {}, assets |-> {}, index |-> "absent"]

\* The package variables when no package operation is modelled.
\* The directories of a package before anything was prepared.
NoPkgFs == [WorkingDir |-> "absent", OriginalDir |-> "absent"]

PkgIdle ==
    /\ chartObj = [local |-> TRUE, UpstreamChartVersion |-> Nil]
    /\ repo = EmptyRepo
    /\ targetChartPaths = EmptyMap
    /\ filename = <<>>
    /\ call = <<>>
    /\ trail = <<>>
    /\ pkgFs = NoPkgFs

\* The classifier variables when no classification is modelled.
ClassIdle ==
    /\ vr = [inLifecycle |-> {}, toRelease |-> [v \in Versions |-> "forward"], rc |-> {}]
    /\ status = NewStatus
    /\ releasedAssets = EmptyMap
    /\ devAssets = EmptyMap
    /\ err = Nil

\* The run variables when no run is modelled.
RunIdle ==
    /\ ldGitBranch = ProdBranch
    /\ ldAssets = EmptyMap
    /\ index = [b \in Branches |-> EmptyMap]
    /\ repoBranch = ProdBranch
    /\ startBranch = ProdBranch
    /\ oldCurrentBranch = ""
    /\ chart = ""
    /\ ret = NoReturn
    /\ events = <<>>
    /\ runs = 0
    /\ logs = NoLogs
    /\ stateFile = "absent"

(***************************************************************************)
(* The classifier applied to drawn mappings and policies.                  *)
(***************************************************************************)
ClassifyInit ==
    /\ vr \in VersionRules
    /\ releasedAssets \in Mappings(MaxReleasedAssets)
    /\ devAssets \in Mappings(MaxDevAssets)
    /\ status = NewStatus
    /\ err = Nil
    /\ pc = "classify"
    /\ RunIdle
    /\ PatchIdle
    /\ PkgIdle

Compare ==
    /\ pc = "classify"
    /\ \E order \in Orders(DOMAIN devAssets) :
         status' = compareReleasedAndDevAssets(status, vr, releasedAssets, devAssets, order)
    /\ pc' = "compared"
    /\ UNCHANGED <<pkgVars, patchVars, vr, releasedAssets, devAssets, err, runVars>>

Separate ==
    /\ pc = "compared"
    /\ \E order \in Orders(DOMAIN status.AssetsNotReleasedInLifecycle) :
         LET r == separateReleaseFromForwardPort(status, vr, order)
         IN  /\ status' = r.status
             /\ err' = r.err
    /\ pc' = "separated"
    /\ UNCHANGED <<pkgVars, patchVars, vr, releasedAssets, devAssets, runVars>>

ClassifyNext == Compare \/ Separate

ClassifySpec == ClassifyInit /\ [][ClassifyNext]_vars

(***************************************************************************)
(* The status run: CheckLifecycleStatusAndSave, one action per step.       *)
(***************************************************************************)
Init ==
    /\ vr \in VersionRules
    /\ index \in IndexStates
    /\ repoBranch \in Branches
    /\ ldGitBranch = repoBranch
    /\ ldAssets = index[repoBranch]
    /\ startBranch = repoBranch
    /\ status = NewStatus
    /\ releasedAssets = EmptyMap
    /\ devAssets = EmptyMap
    /\ err = Nil
    /\ pc = "idle"
    /\ oldCurrentBranch = ""
    /\ chart = ""
    /\ ret = NoReturn
    /\ events = <<>>
    /\ runs = 0
    /\ logs = NoLogs
    /\ stateFile = "absent"
    /\ PatchIdle
    /\ PkgIdle

Event(op, target, ok) == [op |-> op, target |-> target, on |-> repoBranch, ok |-> ok]

\* The run returns r to its caller.
Return(r) ==
    /\ pc' = "returned"
    /\ ret' = r

\* The call, and getStatus up to the same-branch pass.
StartRun ==
    /\ pc \in {"idle", "returned"}
    /\ runs < MaxRuns
    /\ runs' = runs + 1
    /\ \E c \in Charts \cup {""} : chart' = c
    /\ \E order \in Orders(DOMAIN ldAssets) :
         status' = listCurrentAssetsVersionsOnTheCurrentBranch(NewStatus, vr, ldAssets, order)
    /\ startBranch' = repoBranch
    /\ releasedAssets' = EmptyMap
    /\ devAssets' = EmptyMap
    /\ oldCurrentBranch' = ""
    /\ ret' = NoReturn
    /\ events' = <<>>
    /\ pc' = "OpenGitRepo"
    /\ UNCHANGED <<pkgVars, patchVars, vr, err, ldGitBranch, ldAssets, index, repoBranch, logs, stateFile>>

\* listProdAndDevAssets: git.OpenGitRepo and oldCurrentBranch := git.Branch
OpenGitRepo ==
    /\ pc = "OpenGitRepo"
    /\ \E ok \in BOOLEAN :
         /\ events' = Append(events, Event("OpenGitRepo", repoBranch, ok))
         /\ IF ok THEN /\ oldCurrentBranch' = repoBranch
                       /\ pc' = "switchProd"
                       /\ ret' = ret
                 ELSE /\ oldCurrentBranch' = oldCurrentBranch
                      /\ Return(returnOnGetStatusError(getStatusOnError(status, <<"OpenGitRepo">>)))
    /\ UNCHANGED <<pkgVars, patchVars, classVars_data, ldGitBranch, ldAssets, index, repoBranch, startBranch,
                   chart, runs, logs, stateFile>>

\* A git operation op on target that leads to pc value next when it succeeds.
GitStep(op, target, next) ==
    \E ok \in BOOLEAN :
      /\ events' = Append(events, Event(op, target, ok))
      /\ repoBranch' = branchAfter(op, target, repoBranch, ok)
      /\ IF ok THEN pc' = next /\ ret' = ret
               ELSE Return(returnOnGetStatusError(getStatusOnError(status, <<op, target>>)))

\* getAssetsMapFromIndex(helmIndexPath, ""): the index of the working tree.
ReadStep(which, next) ==
    \E ok \in BOOLEAN :
      /\ events' = Append(events, Event("getAssetsMapFromIndex", which, ok))
      /\ IF ok THEN pc' = next /\ ret' = ret
               ELSE Return(returnOnGetStatusError(getStatusOnError(status, <<"getAssetsMapFromIndex", which>>)))

SwitchProd ==
    /\ pc = "switchProd"
    /\ GitStep(prodSwitchOp(ldGitBranch), ProdBranch, "readProd")
    /\ UNCHANGED <<pkgVars, patchVars, classVars_data, ldGitBranch, ldAssets, index, startBranch,
                   oldCurrentBranch, chart, runs, logs, stateFile>>

ReadProd ==
    /\ pc = "readProd"
    /\ ReadStep("released", "switchDev")
    /\ releasedAssets' = IF pc' = "switchDev" THEN index[repoBranch] ELSE releasedAssets
    /\ UNCHANGED <<pkgVars, patchVars, vr, status, devAssets, err, ldGitBranch, ldAssets, index, repoBranch,
                   startBranch, oldCurrentBranch, chart, runs, logs, stateFile>>

SwitchDev ==
    /\ pc = "switchDev"
    /\ GitStep("FetchAndCheckoutBranch", DevBranch, "readDev")
    /\ UNCHANGED <<pkgVars, patchVars, classVars_data, ldGitBranch, ldAssets, index, startBranch,
                   oldCurrentBranch, chart, runs, logs, stateFile>>

ReadDev ==
    /\ pc = "readDev"
    /\ ReadStep("development", "compare")
    /\ devAssets' = IF pc' = "compare" THEN index[repoBranch] ELSE devAssets
    /\ UNCHANGED <<pkgVars, patchVars, vr, status, releasedAssets, err, ldGitBranch, ldAssets, index,
                   repoBranch, startBranch, oldCurrentBranch, chart, runs, logs, stateFile>>

\* listProdAndDevAssets: s.compareReleasedAndDevAssets(releasedAssets, devAssets)
RunCompare ==
    /\ pc = "compare"
    /\ \E order \in Orders(DOMAIN devAssets) :
         status' = compareReleasedAndDevAssets(status, vr, releasedAssets, devAssets, order)
    /\ events' = Append(events, Event("compareReleasedAndDevAssets", "", TRUE))
    /\ pc' = "restore"
    /\ UNCHANGED <<pkgVars, patchVars, vr, releasedAssets, devAssets, err, ldGitBranch, ldAssets, index,
                   repoBranch, startBranch, oldCurrentBranch, chart, ret, runs, logs,
                   stateFile>>

\* listProdAndDevAssets: return git.CheckoutBranch(oldCurrentBranch)
RunRestore ==
    /\ pc = "restore"
    /\ GitStep("CheckoutBranch", oldCurrentBranch, "separate")
    /\ UNCHANGED <<pkgVars, patchVars, classVars_data, ldGitBranch, ldAssets, index, startBranch,
                   oldCurrentBranch, chart, runs, logs, stateFile>>

\* getStatus: status.separateReleaseFromForwardPort(ctx)
RunSeparate ==
    /\ pc = "separate"
    /\ \E order \in Orders(DOMAIN status.AssetsNotReleasedInLifecycle) :
         LET r == separateReleaseFromForwardPort(status, vr, order)
         IN  /\ status' = r.status
             /\ events' = Append(events,
                                 Event("separateReleaseFromForwardPort", "", r.err = Nil))
             /\ IF r.err = Nil THEN pc' = "createLogFiles" /\ ret' = ret
                ELSE Return(returnOnGetStatusError(getStatusOnError(r.status, r.err)))
    /\ UNCHANGED <<pkgVars, patchVars, vr, releasedAssets, devAssets, err, ldGitBranch, ldAssets, index,
                   repoBranch, startBranch, oldCurrentBranch, chart, runs, logs, stateFile>>

\* createLogFiles: the files are created in order; the first failure returns.
CreateLogFiles ==
    /\ pc = "createLogFiles"
    /\ \E k \in 0..Len(LogFiles) :
         /\ logs' = [f \in DOMAIN logs |->
                       IF \E i \in 1..k : LogFiles[i] = f THEN "created" ELSE logs[f]]
         /\ events' = Append(events, Event("createLogFiles", "", k = Len(LogFiles)))
         /\ IF k = Len(LogFiles) THEN pc' = "writeLogs" /\ ret' = ret
            ELSE Return([status |-> <<status>>, err |-> <<"CreateLogs", LogFiles[k + 1]>>])
    /\ UNCHANGED <<pkgVars, patchVars, classVars_data, ldGitBranch, ldAssets, index, repoBranch, startBranch,
                   oldCurrentBranch, chart, runs, stateFile>>

\* The optional filter by chart and the rendering of the three log files.
WriteLogs ==
    /\ pc = "writeLogs"
    /\ status' = filterByChart(status, chart)
    /\ logs' = [f \in DOMAIN logs |-> "rendered"]
    /\ events' = events \o [i \in DOMAIN LogFiles |-> Event("WriteVersions", LogFiles[i], TRUE)]
    /\ pc' = "initState"
    /\ UNCHANGED <<pkgVars, patchVars, vr, releasedAssets, devAssets, err, ldGitBranch, ldAssets, index,
                   repoBranch, startBranch, oldCurrentBranch, chart, ret, runs, stateFile>>

\* status.initState(): the state snapshot is persisted, or the call fails.
InitState ==
    /\ pc = "initState"
    /\ \E ok \in BOOLEAN :
         /\ events' = Append(events, Event("initState", "", ok))
         /\ stateFile' = IF ok THEN "saved" ELSE stateFile
         /\ Return([status |-> <<status>>, err |-> IF ok THEN Nil ELSE <<"initState">>])
    /\ UNCHANGED <<pkgVars, patchVars, classVars_data, ldGitBranch, ldAssets, index, repoBranch, startBranch,
                   oldCurrentBranch, chart, runs, logs>>

Next ==
    \/ StartRun
    \/ OpenGitRepo
    \/ SwitchProd
    \/ ReadProd
    \/ SwitchDev
    \/ ReadDev
    \/ RunCompare
    \/ RunRestore
    \/ RunSeparate
    \/ CreateLogFiles
    \/ WriteLogs
    \/ InitState

Spec == Init /\ [][Next]_vars

(***************************************************************************)
(* The patch engine: calls of GeneratePatch on one patchPath.              *)
(***************************************************************************)
PatchInit ==
    /\ PatchIdle
    /\ PkgIdle
    /\ ClassIdle
    /\ pc = "patch"
    /\ RunIdle

\* The environment of one call: what the call is answered at each step it
\* takes.  A tool that is not on the PATH can be neither probed nor run, one
\* whose --version fails or is not GNU's is not run, a file that cannot be
\* created cannot be written, and no more lines are written than there are:
\* none, one or all of them.
Answers ==
    LET noProbe == [ok |-> FALSE, out |-> <<>>]
        noRun == [started |-> FALSE, exit |-> 0, out |-> <<>>]
    IN  {a \in [found : BOOLEAN, probe : VersionProbes, run : DiffRuns,
                createOk : BOOLEAN, written : 0..LongestDiff] :
           /\ ~a.found => a.probe = noProbe
           /\ a.probe.out # GnuDiffVersion => (a.run = noRun /\ ~a.createOk)
           /\ a.written \in {0, 1, Len(a.run.out)}
           /\ a.written <= Len(a.run.out)
           /\ ~a.createOk => a.written = 0}

CallGeneratePatch ==
    /\ pc = "patch"
    /\ \E a \in Answers :
         LET r == GeneratePatch(patchFile, a.found, a.probe, a.run, a.createOk, a.written)
         IN  /\ patchFile' = r.file
             /\ gp' = [called |-> TRUE, before |-> patchFile, found |-> a.found,
                       probe |-> a.probe, run |-> a.run, createOk |-> a.createOk,
                       written |-> a.written, patchWritten |-> r.patchWritten,
                       err |-> r.err, cmds |-> r.cmds]
             /\ persisted' = IF r.patchWritten
                               THEN persisted \cup {[out |-> a.run.out, file |-> r.file]}
                               ELSE persisted
    /\ UNCHANGED <<pkgVars, classVars, runVars, destDir, ap>>

PatchNext == CallGeneratePatch

PatchSpec == PatchInit /\ [][PatchNext]_vars

(***************************************************************************)
(* The patch engine: calls of ApplyPatch with one patchPath and destDir.   *)
(***************************************************************************)
\* The patch file is absent or one that GeneratePatch has written.
ApplyInit ==
    /\ ClassIdle
    /\ pc = "patch"
    /\ RunIdle
    /\ patchFile \in {NoFile} \cup {FileOf(removeTimestamps(d)) : d \in DiffTexts}
    /\ gp = NoCall
    /\ persisted = {}
    /\ destDir = "original"
    /\ ap = NoApply
    /\ PkgIdle

\* The environment of one call of ApplyPatch.  A tool that is not on the
\* PATH can be neither probed nor run, one whose --version fails cannot be
\* run, and a file that is absent or does not open is not fed to the tool.
ApplyAnswers(file, dest) ==
    LET noProbe == [ok |-> FALSE, out |-> <<>>]
        noRun == [started |-> FALSE, exit |-> 0, out |-> <<>>, dest |-> dest]
    IN  {a \in [found : BOOLEAN, probe : VersionProbes, openOk : BOOLEAN,
                run : PatchRuns(dest)] :
           /\ ~a.found => a.probe = noProbe
           /\ ~a.probe.ok => (a.run = noRun /\ ~a.openOk)
           /\ ~file.exists => ~a.openOk
           /\ ~a.openOk => a.run = noRun}

CallApplyPatch ==
    /\ pc = "patch"
    /\ \E a \in ApplyAnswers(patchFile, destDir) :
         LET r == ApplyPatch(patchFile, destDir, a.found, a.probe, a.openOk, a.run)
         IN  /\ destDir' = r.dest
             /\ ap' = [called |-> TRUE, file |-> patchFile, before |-> destDir,
                       found |-> a.found, probe |-> a.probe, openOk |-> a.openOk,
                       run |-> a.run, err |-> r.err, cmds |-> r.cmds, log |-> r.log]
    /\ UNCHANGED <<pkgVars, classVars, runVars, patchFile, gp, persisted>>

ApplyNext == CallApplyPatch

ApplySpec == ApplyInit /\ [][ApplyNext]_vars

(***************************************************************************)
(* The patch engine: the first call of either operation, on any patch file *)
(* and destination directory.                                              *)
(***************************************************************************)
ToolInit ==
    /\ ClassIdle
    /\ pc = "patch"
    /\ RunIdle
    /\ patchFile \in {NoFile} \cup {FileOf(removeTimestamps(d)) : d \in DiffTexts}
    /\ gp = NoCall
    /\ persisted = {}
    /\ destDir \in DestStates
    /\ ap = NoApply
    /\ PkgIdle

FirstGeneratePatch ==
    /\ ~gp.called /\ ~ap.called
    /\ CallGeneratePatch

FirstApplyPatch ==
    /\ ~gp.called /\ ~ap.called
    /\ CallApplyPatch

ToolNext ==
    \/ FirstGeneratePatch
    \/ FirstApplyPatch

ToolSpec == ToolInit /\ [][ToolNext]_vars

(***************************************************************************)
(* The Chart of a package: Prepare and GenerateChart calls on one Chart.   *)
(***************************************************************************)
\* The most calls made on one Chart.
MaxCalls == 3

\* A Chart as loaded from the package definition: never prepared.
ChartInit ==
    /\ ClassIdle
    /\ pc = "chart"
    /\ RunIdle
    /\ PatchIdle
    /\ chartObj \in [local : BOOLEAN, UpstreamChartVersion : {Nil}]
    /\ repo = EmptyRepo
    /\ targetChartPaths = EmptyMap
    /\ filename = <<>>
    /\ call = <<>>
    /\ trail = <<>>
    /\ pkgFs \in [WorkingDir : {"absent", "present"}, OriginalDir : {"absent"}]
    /\ chartObj.local => pkgFs.WorkingDir = "present"

CallPrepare ==
    /\ pc = "chart"
    /\ Len(trail) < MaxCalls
    /\ \E failAt \in {""} \cup
                     {(IF chartObj.local THEN LocalPrepareSteps ELSE UpstreamPrepareSteps)[i] :
                        i \in DOMAIN (IF chartObj.local THEN LocalPrepareSteps
                                      ELSE UpstreamPrepareSteps)},
          version \in UpstreamVersions, pulled \in BOOLEAN :
         /\ pulled => failAt = "Pull"
         /\ LET read == IF failAt = "GetHelmMetadataVersion" THEN "" ELSE version
                r == Prepare(chartObj, failAt, read)
            IN  /\ chartObj' = r.c
                /\ pkgFs' = prepareDirs(chartObj, pkgFs, failAt, pulled)
                /\ call' = [op |-> "Prepare", failAt |-> failAt, read |-> read,
                            err |-> r.err, after |-> r.c.UpstreamChartVersion]
                /\ trail' = Append(trail, call')
    /\ UNCHANGED <<classVars, runVars, patchVars, repo, targetChartPaths, filename>>

CallGenerateChart ==
    /\ pc = "chart"
    /\ Len(trail) < MaxCalls
    /\ \E exportOk \in BOOLEAN :
         LET r == GenerateChart(chartObj, exportOk)
         IN  /\ repo' = IF r.err = Nil THEN ExportHelmChart(repo) ELSE repo
             /\ call' = [op |-> "GenerateChart", failAt |-> "", read |-> "",
                         err |-> r.err, after |-> r.exported]
             /\ trail' = Append(trail, call')
    /\ UNCHANGED <<classVars, runVars, patchVars, pkgFs, chartObj, targetChartPaths, filename>>

ChartNext ==
    \/ CallPrepare
    \/ CallGenerateChart

ChartSpec == ChartInit /\ [][ChartNext]_vars

(***************************************************************************)
(* Charts: calls of GeneratePatch on one Chart and its directories.        *)
(***************************************************************************)
GenPatchInit ==
    /\ ClassIdle
    /\ pc = "genpatch"
    /\ RunIdle
    /\ PatchIdle
    /\ chartObj \in [local : BOOLEAN, UpstreamChartVersion : {Nil}]
    /\ repo = EmptyRepo
    /\ targetChartPaths = EmptyMap
    /\ filename = <<>>
    /\ call = <<>>
    /\ trail = <<>>
    /\ pkgFs \in [WorkingDir : {"absent", "present"}, OriginalDir : {"absent"}]

CallChartGeneratePatch ==
    /\ pc = "genpatch"
    /\ Len(trail) < MaxCalls
    /\ \E failAt \in {""} \cup {GeneratePatchSteps[i] : i \in DOMAIN GeneratePatchSteps},
          pulled, removeOk \in BOOLEAN :
         /\ pulled => failAt = "Pull"
         /\ ~removeOk => failAt \in {"", "GenerateChanges"}
         /\ LET r == ChartGeneratePatch(chartObj, pkgFs, failAt, pulled, removeOk)
            IN  /\ pkgFs' = r.fs
                /\ call' = [op |-> "GeneratePatch", failAt |-> failAt, removeOk |-> removeOk,
                            err |-> r.err, before |-> pkgFs, after |-> r.fs]
                /\ trail' = Append(trail, call')
    /\ UNCHANGED <<classVars, runVars, patchVars, chartObj, repo, targetChartPaths, filename>>

GenPatchNext == CallChartGeneratePatch

GenPatchSpec == GenPatchInit /\ [][GenPatchNext]_vars

(***************************************************************************)
(* Asset file names: one call of getChartNameAndVersion.                   *)
(***************************************************************************)
\* The longest stem of a file name, and the characters of stems.
MaxStemLen == 3
StemChars == {"a", "-", "."} \cup Digits
Suffixes == {<<>>, TgzSuffix, <<".", "t", "a", "r">>}
Filenames == {stem \o suffix : stem \in SeqsUpTo(StemChars, MaxStemLen), suffix \in Suffixes}

NameInit ==
    /\ ClassIdle
    /\ pc = "filename"
    /\ RunIdle
    /\ PatchIdle
    /\ chartObj = [local |-> TRUE, UpstreamChartVersion |-> Nil]
    /\ repo = EmptyRepo
    /\ targetChartPaths = EmptyMap
    /\ filename \in Filenames
    /\ call = <<>>
    /\ trail = <<>>
    /\ pkgFs = NoPkgFs

CallGetChartNameAndVersion ==
    /\ pc = "filename"
    /\ call = <<>>
    /\ call' = getChartNameAndVersion(filename)
    /\ UNCHANGED <<classVars, runVars, patchVars, pkgFs, chartObj, repo, targetChartPaths, filename,
                   trail>>

NameNext == CallGetChartNameAndVersion

NameSpec == NameInit /\ [][NameNext]_vars

(***************************************************************************)
(* Archiving and dumping: one call of ArchiveCharts or DumpAssets.         *)
(***************************************************************************)
\* The files of the trees: charts at charts/{chart}/{version}, a file and a
\* directory without Chart.yaml next to them, archives at
\* assets/{chart}/{file}.tgz, a file that is no archive and a directory
\* named like one.
ZipChartFiles ==
    {ChartYaml(<<RepositoryChartsDir, "nginx", "1.2.0">>, "nginx", "1.2.0"),
     ChartYaml(<<RepositoryChartsDir, "nginx", "1.3.0">>, "nginx", "1.3.0"),
     ChartYaml(<<RepositoryChartsDir, "redis", "1.3.0">>, "redis", "1.3.0"),
     File(<<RepositoryChartsDir, "nginx", "README.md">>, "", "")}
ZipAssetFiles ==
    {Tgz(<<RepositoryAssetsDir, "nginx">>, "nginx", "1.2.0"),
     Tgz(<<RepositoryAssetsDir, "redis">>, "redis", "1.3.0"),
     File(<<RepositoryAssetsDir, "nginx", "README.md">>, "", ""),
     File(<<RepositoryAssetsDir, "nginx", "old.tgz", "Chart.yaml">>, "", "")}

\* The filters given as specificChart and specificAsset.
ZipFilters ==
    {<<>>, <<"nginx">>, <<"nginx", "1.2.0">>, <<"redis", "1.3.0">>, <<"mysql">>,
     <<"nginx", TgzName("nginx", "1.2.0")>>, <<"nginx", "README.md">>}

\* The sets of routines and paths on which they fail.
ZipFailures ==
    {{}, {<<"GenerateArchive", <<RepositoryChartsDir, "nginx", "1.2.0">>>>},
     {<<"Load", <<RepositoryAssetsDir, "nginx", TgzName("nginx", "1.2.0")>>>>},
     {<<"RemoveAll", <<RepositoryChartsDir, "nginx", "1.2.0">>>>},
     {<<"UnarchiveTgz", <<RepositoryAssetsDir, "nginx", TgzName("nginx", "1.2.0")>>>>}}

ZipInit ==
    /\ ClassIdle
    /\ pc = "zip"
    /\ RunIdle
    /\ PatchIdle
    /\ chartObj = [local |-> TRUE, UpstreamChartVersion |-> Nil]
    /\ \E cs \in SUBSET ZipChartFiles, as \in SUBSET ZipAssetFiles :
         repo = [charts |-> cs, assets |-> as, index |-> "absent"]
    /\ targetChartPaths = EmptyMap
    /\ filename = <<>>
    /\ call = <<>>
    /\ trail = <<>>
    /\ pkgFs = NoPkgFs

\* The record of a call on the tree: its inputs, what it returned and the
\* set of paths it processed.
ZipCall(op, specific, walkOk, failing, r) ==
    [op |-> op, specific |-> specific, walkOk |-> walkOk, failing |-> failing,
     before |-> repo.charts \cup repo.assets, err |-> r.err, found |-> r.found,
     done |-> {r.done[i] : i \in DOMAIN r.done}]

\* The tree after a call that left the files fs.
RepoOf(fs) ==
    [repo EXCEPT !.charts = {f \in fs : f.path[1] = RepositoryChartsDir},
                 !.assets = {f \in fs : f.path[1] = RepositoryAssetsDir}]

CallArchiveCharts ==
    /\ pc = "zip"
    /\ call = <<>>
    /\ \E specificChart \in ZipFilters, walkOk \in BOOLEAN, failing \in ZipFailures :
         \E order \in WalkOrders(repo.charts, RepositoryChartsDir) :
           LET r == ArchiveCharts(repo.charts \cup repo.assets, specificChart, order,
                                  walkOk, failing)
           IN  /\ repo' = RepoOf(r.files)
               /\ call' = ZipCall("ArchiveCharts", specificChart, walkOk, failing, r)
    /\ UNCHANGED <<classVars, runVars, patchVars, pkgFs, chartObj, targetChartPaths, filename, trail>>

CallDumpAssets ==
    /\ pc = "zip"
    /\ call = <<>>
    /\ \E specificAsset \in ZipFilters, walkOk \in BOOLEAN, failing \in ZipFailures :
         \E order \in WalkOrders(repo.assets, RepositoryAssetsDir) :
           LET r == DumpAssets(repo.charts \cup repo.assets, specificAsset, order,
                               walkOk, failing)
           IN  /\ repo' = RepoOf(r.files)
               /\ call' = ZipCall("DumpAssets", specificAsset, walkOk, failing, r)
    /\ UNCHANGED <<classVars, runVars, patchVars, pkgFs, chartObj, targetChartPaths, filename, trail>>

ZipNext ==
    \/ CallArchiveCharts
    \/ CallDumpAssets

ZipSpec == ZipInit /\ [][ZipNext]_vars

(***************************************************************************)
(* Standardizing: one call of standardizeAssetsFromCharts, step by step.   *)
(***************************************************************************)
\* The Chart.yaml files of the trees: a chart, a subchart of it, a subchart
\* of the subchart, a chart vendored deeper in it, and two charts at
\* different paths that declare the same name and version.
StdChartFiles ==
    {ChartYaml(<<RepositoryChartsDir, "nginx", "1.2.0">>, "nginx", "1.2.0"),
     ChartYaml(<<RepositoryChartsDir, "nginx", "1.2.0", "charts", "sub">>, "sub", "0.1.0"),
     ChartYaml(<<RepositoryChartsDir, "nginx", "1.2.0", "charts", "sub", "charts", "leaf">>,
               "leaf", "0.1.0"),
     ChartYaml(<<RepositoryChartsDir, "nginx", "vendor", "deep", "leaf">>, "leaf", "0.1.0"),
     ChartYaml(<<RepositoryChartsDir, "redis", "1.3.0">>, "redis", "1.3.0"),
     ChartYaml(<<RepositoryChartsDir, "redis-copy", "1.3.0">>, "redis", "1.3.0")}

StdInit ==
    /\ ClassIdle
    /\ pc = "collect"
    /\ RunIdle
    /\ PatchIdle
    /\ chartObj = [local |-> TRUE, UpstreamChartVersion |-> Nil]
    /\ \E cs \in SUBSET StdChartFiles,
          as \in {{}, {Tgz(<<RepositoryAssetsDir, "nginx">>, "nginx", "1.3.0")}} :
         /\ repo = [charts |-> cs, assets |-> as, index |-> "stale"]
         /\ call = [before |-> repo, returned |-> FALSE, err |-> Nil]
    /\ targetChartPaths = EmptyMap
    /\ filename = <<>>
    /\ trail = <<>>
    /\ pkgFs = NoPkgFs

\* A step of the operation, and its return.
Step(op, arg, ok) == [op |-> op, arg |-> arg, ok |-> ok]
StdReturn(e) ==
    /\ pc' = "returned"
    /\ call' = [call EXCEPT !.returned = TRUE, !.err = e]
StdGoto(next) ==
    /\ pc' = next
    /\ call' = call

\* The walk of charts/ that collects the charts; loading one can fail.
StdCollect ==
    /\ pc = "collect"
    /\ \E ok \in BOOLEAN :
         /\ trail' = Append(trail, Step("WalkDir", RepositoryChartsDir, ok))
         /\ IF ok
              THEN /\ targetChartPaths' = collectAllValidCharts(repo.charts)
                   /\ StdGoto("subcharts")
              ELSE /\ targetChartPaths' = targetChartPaths
                   /\ StdReturn(<<"encountered error while trying to find Helm charts">>)
    /\ UNCHANGED <<classVars_data, runVars, patchVars, pkgFs, chartObj, repo, filename>>

StdRemoveSubcharts ==
    /\ pc = "subcharts"
    /\ \E order \in Orders(DOMAIN targetChartPaths) :
         /\ targetChartPaths' = removeSubcharts(targetChartPaths, order, 1)
         /\ trail' = Append(trail, Step("removeSubcharts", order, TRUE))
    /\ StdGoto("unique")
    /\ UNCHANGED <<classVars_data, runVars, patchVars, pkgFs, chartObj, repo, filename>>

StdEnsureUnique ==
    /\ pc = "unique"
    /\ \E order \in Orders(DOMAIN targetChartPaths) :
         LET e == findConflict(targetChartPaths, order, 1, EmptyMap)
         IN  /\ trail' = Append(trail, Step("ensureUnique", "", e = Nil))
             /\ IF e = Nil THEN StdGoto("removeAssets") ELSE StdReturn(e)
    /\ UNCHANGED <<classVars_data, runVars, patchVars, pkgFs, chartObj, repo, targetChartPaths,
                   filename>>

StdRemoveAssets ==
    /\ pc = "removeAssets"
    /\ \E ok \in BOOLEAN :
         /\ trail' = Append(trail, Step("RemoveAll", RepositoryAssetsDir, ok))
         /\ IF ok THEN /\ repo' = [repo EXCEPT !.assets = {}]
                       /\ StdGoto("archive")
                  ELSE /\ repo' = repo
                       /\ StdReturn(<<"unable to remove all assets">>)
    /\ UNCHANGED <<classVars_data, runVars, patchVars, pkgFs, chartObj, targetChartPaths, filename>>

\* The archive loop: the charts in some order, the first k of them
\* archived and, when k is not all of them, the next one failing.
StdArchive ==
    /\ pc = "archive"
    /\ \E order \in Orders(DOMAIN targetChartPaths) :
         \E k \in 0..Len(order) :
           /\ repo' = [repo EXCEPT !.assets =
                         @ \cup {archiveOf(targetChartPaths[order[i]]) : i \in 1..k}]
           /\ trail' = trail \o [i \in 1..k |-> Step("GenerateArchive", order[i], TRUE)]
                             \o (IF k < Len(order)
                                   THEN <<Step("GenerateArchive", order[k + 1], FALSE)>>
                                   ELSE <<>>)
           /\ IF k = Len(order) THEN StdGoto("removeCharts")
              ELSE StdReturn(<<"encountered error while trying to update archive",
                               order[k + 1]>>)
    /\ UNCHANGED <<classVars_data, runVars, patchVars, pkgFs, chartObj, targetChartPaths, filename>>

StdRemoveCharts ==
    /\ pc = "removeCharts"
    /\ \E ok \in BOOLEAN :
         /\ trail' = Append(trail, Step("RemoveAll", RepositoryChartsDir, ok))
         /\ IF ok THEN /\ repo' = [repo EXCEPT !.charts = {}]
                       /\ StdGoto("dump")
                  ELSE /\ repo' = repo
                       /\ StdReturn(<<"unable to remove all assets">>)
    /\ UNCHANGED <<classVars_data, runVars, patchVars, pkgFs, chartObj, targetChartPaths, filename>>

\* zip.DumpAssets(ctx, repoFs.Root(), "")
StdDump ==
    /\ pc = "dump"
    /\ \E walkOk \in BOOLEAN,
          failing \in {{}} \cup {{<<routine, f.path>>} :
                                   routine \in {"Load", "UnarchiveTgz"}, f \in repo.assets} :
         \E order \in WalkOrders(repo.assets, RepositoryAssetsDir) :
           LET r == DumpAssets(repo.charts \cup repo.assets, <<>>, order, walkOk, failing)
           IN  /\ repo' = RepoOf(r.files)
               /\ trail' = Append(trail, Step("DumpAssets", "", r.err = Nil))
               /\ IF r.err = Nil THEN StdGoto("index")
                  ELSE StdReturn(<<"encountered error while trying to dump Helm charts">>)
    /\ UNCHANGED <<classVars_data, runVars, patchVars, pkgFs, chartObj, targetChartPaths, filename>>

\* helm.CreateOrUpdateHelmIndex(ctx, repoFs)
StdIndex ==
    /\ pc = "index"
    /\ \E ok \in BOOLEAN :
         /\ trail' = Append(trail, Step("CreateOrUpdateHelmIndex", "", ok))
         /\ repo' = IF ok THEN [repo EXCEPT !.index = "regenerated"] ELSE repo
         /\ StdReturn(IF ok THEN Nil
                      ELSE <<"encountered error while trying to recreate Helm index">>)
    /\ UNCHANGED <<classVars_data, runVars, patchVars, pkgFs, chartObj, targetChartPaths, filename>>

StdNext ==
    \/ StdCollect
    \/ StdRemoveSubcharts
    \/ StdEnsureUnique
    \/ StdRemoveAssets
    \/ StdArchive
    \/ StdRemoveCharts
    \/ StdDump
    \/ StdIndex

StdSpec == StdInit /\ [][StdNext]_vars

(***************************************************************************)
(* Properties of the classifier.                                           *)
(***************************************************************************)
\* The number of occurrences of asset a in the list of chart c in mapping m.
Count(m, c, a) ==
    LET l == Lookup(m, c) IN Cardinality({i \in DOMAIN l : l[i] = a})

CrossBuckets ==
    {"AssetsReleasedInLifecycle", "AssetsNotReleasedOutLifecycle",
     "AssetsNotReleasedInLifecycle", "AssetsReleasedOutLifecycle"}

\* The cross-branch buckets that hold asset a under chart c.
BucketsHolding(c, a) == {b \in CrossBuckets : Count(status[b], c, a) > 0}

Compared == pc \in {"compared", "separated"}

\* C1: after compareReleasedAndDevAssets every (chart, version) occurrence
\* of the development mapping is in exactly one of the four cross-branch
\* buckets, and the buckets hold nothing else: for every chart and asset,
\* one bucket holds all its occurrences and the other three hold none.
C1_CrossBucketsPartitionDev ==
    Compared =>
      \A c \in Charts, a \in Asset :
        LET n == Count(devAssets, c, a)
        IN  /\ n = 0 => BucketsHolding(c, a) = {}
            /\ n > 0 => \E b \in CrossBuckets :
                          /\ BucketsHolding(c, a) = {b}
                          /\ Count(status[b], c, a) = n

\* C1 witness: a compared development mapping that holds the same version
\* of one chart twice, both occurrences in one bucket.
C1_Witness ==
    /\ Compared
    /\ \E c \in Charts, a \in Asset, b \in CrossBuckets :
         Count(devAssets, c, a) = 2 /\ Count(status[b], c, a) = 2

\* The truth table of section 4.2, written out.
TableBucket(c, v) ==
    LET isReleased == \E a \in Asset : a.Version = v /\ Count(releasedAssets, c, a) > 0
        inWindow == v \in vr.inLifecycle
    IN  IF isReleased
          THEN (IF inWindow THEN "AssetsReleasedInLifecycle" ELSE "AssetsReleasedOutLifecycle")
          ELSE (IF inWindow THEN "AssetsNotReleasedInLifecycle"
                ELSE "AssetsNotReleasedOutLifecycle")

\* C2: each development version of a chart is in the bucket the 2x2 truth
\* table over (released by exact version string, in the lifecycle window)
\* gives; a chart missing from the released mapping is not released.
C2_BucketByTruthTable ==
    Compared =>
      \A c \in DOMAIN devAssets : \A i \in DOMAIN devAssets[c] :
        /\ Count(status[TableBucket(c, devAssets[c][i].Version)], c, devAssets[c][i]) > 0
        /\ c \notin DOMAIN releasedAssets =>
             TableBucket(c, devAssets[c][i].Version) \in
               {"AssetsNotReleasedInLifecycle", "AssetsNotReleasedOutLifecycle"}

\* C2 witness: the four rows of the table occur in one comparison, one of
\* them for a chart that the released mapping does not have.
C2_Witness ==
    /\ Compared
    /\ \E c \in DOMAIN devAssets, d \in DOMAIN devAssets :
         /\ c \in DOMAIN releasedAssets /\ d \notin DOMAIN releasedAssets
         /\ \E i \in DOMAIN devAssets[c] :
              TableBucket(c, devAssets[c][i].Version) = "AssetsReleasedOutLifecycle"
         /\ \E i \in DOMAIN devAssets[d] :
              TableBucket(d, devAssets[d][i].Version) = "AssetsNotReleasedInLifecycle"
    /\ status.AssetsReleasedOutLifecycle # EmptyMap
    /\ status.AssetsNotReleasedInLifecycle # EmptyMap

\* C3: no version that satisfies the release-candidate predicate is ever in
\* AssetsToBeReleased or AssetsToBeForwardPorted.
C3_NoReleaseCandidateRouted ==
    \A c \in Charts, a \in Asset :
      CheckForRCVersion(vr, a.Version) =>
        /\ Count(status.AssetsToBeReleased, c, a) = 0
        /\ Count(status.AssetsToBeForwardPorted, c, a) = 0

\* C3 witness: a successful split that met a release candidate which the
\* release decision would release, and routed another version.
C3_Witness ==
    /\ pc = "separated" /\ err = Nil
    /\ \E c \in Charts, a \in Asset :
         /\ Count(status.AssetsNotReleasedInLifecycle, c, a) > 0
         /\ CheckForRCVersion(vr, a.Version)
         /\ CheckChartVersionToRelease(vr, a.Version) = "release"
    /\ status.AssetsToBeReleased # EmptyMap

\* C4: when separateReleaseFromForwardPort succeeds, every non-RC version of
\* AssetsNotReleasedInLifecycle is, with all its occurrences, in
\* AssetsToBeReleased if the release decision holds for it and in
\* AssetsToBeForwardPorted otherwise, never in both, and the two mappings
\* hold nothing else: no release candidate and no version of the other
\* three cross-branch buckets.
C4_SplitOfNotReleasedInLifecycle ==
    (pc = "separated" /\ err = Nil) =>
      \A c \in Charts, a \in Asset :
        LET n == Count(status.AssetsNotReleasedInLifecycle, c, a)
            toRel == Count(status.AssetsToBeReleased, c, a)
            toFwd == Count(status.AssetsToBeForwardPorted, c, a)
        IN  IF a.Version \in vr.rc THEN toRel = 0 /\ toFwd = 0
            ELSE IF vr.toRelease[a.Version] = "release" THEN toRel = n /\ toFwd = 0
            ELSE toRel = 0 /\ toFwd = n

\* C4 witness: a successful split with a version in each of the two
\* mappings.
C4_Witness ==
    /\ pc = "separated" /\ err = Nil
    /\ status.AssetsToBeReleased # EmptyMap
    /\ status.AssetsToBeForwardPorted # EmptyMap

(***************************************************************************)
(* Properties of the status run.                                           *)
(***************************************************************************)
SwitchOps == {"FetchAndPullBranch", "FetchAndCheckoutBranch", "CheckoutBranch"}

Returned == pc = "returned"

\* The six mappings computed before the release decision is asked.
ComputedBeforeSplit ==
    CrossBuckets \cup {"AssetsInLifecycleCurrentBranch", "AssetsOutLifecycleCurrentBranch"}

\* C5: when the release decision fails, the run returns that error and,
\* alongside it, a Status that holds the two current-branch buckets and the
\* four cross-branch buckets computed before the failure.
C5_PartialStatusReturnedWithError ==
    (Returned /\ ret.err # Nil /\ ret.err[1] = "CheckChartVersionToRelease") =>
      /\ vr.toRelease[ret.err[2]] = "error"
      /\ ret.status # <<>>
      /\ \A b \in ComputedBeforeSplit : ret.status[1][b] = status[b]

\* C6: a run in which no branch switch failed returns with the working tree
\* on the branch it was on when the run started.
C6_BranchRestoredOnReturn ==
    (Returned /\ \A i \in DOMAIN events : events[i].op \in SwitchOps => events[i].ok) =>
      repoBranch = startBranch

\* The steps of a successful run, after the repository is opened and the
\* production branch is switched to.
StepsAfterProdSwitch ==
    <<"getAssetsMapFromIndex", "FetchAndCheckoutBranch", "getAssetsMapFromIndex",
      "compareReleasedAndDevAssets", "CheckoutBranch", "separateReleaseFromForwardPort",
      "createLogFiles", "WriteVersions", "WriteVersions", "WriteVersions", "initState">>

\* C7: in a successful run the released mapping is read on the production
\* branch, then the development mapping on the development branch, then the
\* classification runs, the original branch is restored, the split runs,
\* the three log files are rendered and the state snapshot is persisted
\* last; no index is read on a branch other than its own.
C7_StepOrderOfSuccessfulRun ==
    (Returned /\ ret.err = Nil) =>
      /\ Len(events) = 2 + Len(StepsAfterProdSwitch)
      /\ events[1].op = "OpenGitRepo"
      /\ events[2].op \in {"FetchAndPullBranch", "FetchAndCheckoutBranch"}
      /\ events[2].target = ProdBranch
      /\ \A i \in DOMAIN StepsAfterProdSwitch : events[i + 2].op = StepsAfterProdSwitch[i]
      /\ events[3].target = "released" /\ events[3].on = ProdBranch
      /\ events[4].target = DevBranch
      /\ events[5].target = "development" /\ events[5].on = DevBranch
      /\ events[7].target = startBranch
      /\ \A i \in 1..Len(LogFiles) : events[9 + i].target = LogFiles[i]
      /\ stateFile = "saved"

\* C8: the switch to the production branch is a fetch+pull exactly when the
\* working tree is on the production branch at that moment, and a
\* fetch+checkout otherwise; the switch to the development branch is always
\* a fetch+checkout.
C8_PullIffOnProdBranch ==
    \A i \in DOMAIN events :
      /\ (events[i].op \in {"FetchAndPullBranch", "FetchAndCheckoutBranch"}
            /\ events[i].target = ProdBranch) =>
           (events[i].op = "FetchAndPullBranch" <=> events[i].on = ProdBranch)
      /\ (events[i].op \in {"FetchAndPullBranch", "FetchAndCheckoutBranch"}
            /\ events[i].target = DevBranch) =>
           events[i].op = "FetchAndCheckoutBranch"

\* The positions of a run between the same-branch pass and the filter.
BeforeFilter ==
    {"OpenGitRepo", "switchProd", "readProd", "switchDev", "readDev", "compare",
     "restore", "separate", "createLogFiles", "writeLogs"}

\* C14: from the same-branch pass on, every (chart, version) of the
\* current-branch mapping is in exactly one of AssetsInLifecycleCurrentBranch
\* (inside the window) and AssetsOutLifecycleCurrentBranch (outside), the
\* two hold nothing else, whatever the released and development mappings
\* are; the pass is done before the repository is opened or switched.
C14_SameBranchPassPartitions ==
    pc \in BeforeFilter =>
      \A c \in Charts, a \in Asset :
        LET inside == Count(status.AssetsInLifecycleCurrentBranch, c, a)
            outside == Count(status.AssetsOutLifecycleCurrentBranch, c, a)
        IN  IF CheckChartVersionForLifecycle(vr, a.Version)
              THEN inside = Count(ldAssets, c, a) /\ outside = 0
              ELSE outside = Count(ldAssets, c, a) /\ inside = 0

\* C14 witness: the pass has filled both buckets and no step on the
\* repository has been taken yet.
C14_Witness ==
    /\ pc = "OpenGitRepo" /\ events = <<>>
    /\ status.AssetsInLifecycleCurrentBranch # EmptyMap
    /\ status.AssetsOutLifecycleCurrentBranch # EmptyMap

\* The Status of the current run as computed by getStatus, before the
\* filter; iteration orders do not change the mappings of a run without
\* error.
Unfiltered ==
    LET o1 == CHOOSE o \in Orders(DOMAIN ldAssets) : TRUE
        s1 == listCurrentAssetsVersionsOnTheCurrentBranch(NewStatus, vr, ldAssets, o1)
        o2 == CHOOSE o \in Orders(DOMAIN devAssets) : TRUE
        s2 == compareReleasedAndDevAssets(s1, vr, releasedAssets, devAssets, o2)
        o3 == CHOOSE o \in Orders(DOMAIN s2.AssetsNotReleasedInLifecycle) : TRUE
    IN  separateReleaseFromForwardPort(s2, vr, o3).status

\* The Status s holds, in each of its eight mappings, the list that u has
\* for chart c and no version of another chart.
NarrowedTo(s, u, c) ==
    \A f \in DOMAIN u :
      /\ Lookup(s[f], c) = Lookup(u[f], c)
      /\ \A d \in Charts \ {c} : Lookup(s[f], d) = <<>>

\* The log files of the current run were created.
LogFilesCreated ==
    \E i \in DOMAIN events : events[i].op = "createLogFiles" /\ events[i].ok

\* C15 as claimed: the Status returned by a call with a chart name holds,
\* in each of its eight mappings, the unfiltered list of that chart and no
\* version of another chart; with an empty chart name it is as computed.
C15_ReturnedStatusFiltered ==
    (Returned /\ ret.status # <<>>) =>
      IF chart # "" THEN NarrowedTo(ret.status[1], Unfiltered, chart)
      ELSE ret.status[1] = Unfiltered

\* C15 as amended: the same of a Status returned after the log files were
\* created; when creating a log file fails, the Status is returned with the
\* error as computed, not narrowed.
C15_ReturnedStatusFilteredOnceLogsCreated ==
    (Returned /\ ret.status # <<>>) =>
      IF chart # "" /\ LogFilesCreated
        THEN NarrowedTo(ret.status[1], Unfiltered, chart)
        ELSE ret.status[1] = Unfiltered

\* C15 witness: a successful call with a chart name whose unfiltered Status
\* had a version of another chart.
C15_Witness ==
    /\ Returned /\ ret.err = Nil /\ chart # ""
    /\ \E f \in DOMAIN Unfiltered, d \in Charts \ {chart} : Lookup(Unfiltered[f], d) # <<>>
    /\ \E f \in DOMAIN Unfiltered : Lookup(Unfiltered[f], chart) # <<>>

(***************************************************************************)
(* Properties of the patch engine.                                         *)
(***************************************************************************)
\* The last call ran diff on the two trees.
DiffRan == gp.called /\ Len(gp.cmds) = 2 /\ gp.run.started

\* C9: when diff reports no differences (exit status 0, no output),
\* GeneratePatch returns patchWritten = false and no error, and the file at
\* patchPath is as it was before the call: not created, not modified.
C9_NoDifferencesWritesNothing ==
    (DiffRan /\ gp.run.exit = 0 /\ gp.run.out = <<>>) =>
      /\ ~gp.patchWritten
      /\ gp.err = Nil
      /\ patchFile = gp.before

\* C9 witness: such a call, made when an earlier call had written a patch.
C9_Witness ==
    /\ DiffRan /\ gp.run.exit = 0 /\ gp.run.out = <<>>
    /\ gp.before.exists /\ Len(gp.before.lines) > 0

\* C10 as claimed: whenever diff exits with status 1 the call succeeds,
\* persists the diff to patchPath and returns patchWritten = true; whenever
\* diff exits with another status than 0 or 1, or cannot be run, the call
\* returns an error with patchWritten = false and writes no patch file.
C10_ExitStatusMapping ==
    /\ (DiffRan /\ gp.run.exit = 1) =>
         /\ gp.patchWritten
         /\ gp.err = Nil
         /\ patchFile = FileOf(removeTimestamps(gp.run.out))
    /\ (gp.called /\ Len(gp.cmds) = 2 /\ (~gp.run.started \/ gp.run.exit \notin {0, 1})) =>
         /\ ~gp.patchWritten
         /\ gp.err # Nil
         /\ patchFile = gp.before

\* C10 as amended: exit status 1 leads to a persisted patch and
\* patchWritten = true when the patch file is created and written without
\* error, and to an error with patchWritten = false when creating or
\* writing it fails; any other status than 0 or 1, and a diff that cannot
\* be run, lead to an error with patchWritten = false and an untouched file.
C10_ExitStatusMappingUnlessFileFails ==
    /\ (DiffRan /\ gp.run.exit = 1 /\ gp.createOk /\ gp.written = Len(gp.run.out)) =>
         /\ gp.patchWritten
         /\ gp.err = Nil
         /\ patchFile = FileOf(removeTimestamps(gp.run.out))
    /\ (DiffRan /\ gp.run.exit = 1 /\ ~(gp.createOk /\ gp.written = Len(gp.run.out))) =>
         /\ ~gp.patchWritten
         /\ gp.err # Nil
    /\ (gp.called /\ Len(gp.cmds) = 2 /\ (~gp.run.started \/ gp.run.exit \notin {0, 1})) =>
         /\ ~gp.patchWritten
         /\ gp.err # Nil
         /\ patchFile = gp.before

\* C10 witness: diff exited with status 1 and the patch replaced the one an
\* earlier call had written.
C10_Witness ==
    /\ DiffRan /\ gp.run.exit = 1 /\ gp.patchWritten
    /\ gp.before.exists /\ gp.before # patchFile

\* The header lines of a unified diff: a "---" line followed by a "+++"
\* line and the "@@" line of the first hunk, and that "+++" line.
HeaderLines(d) ==
    LET starts == {i \in DOMAIN d : /\ i + 2 <= Len(d)
                                    /\ d[i][1] = "---"
                                    /\ d[i + 1][1] = "+++"
                                    /\ d[i + 2][1] = "@@"}
    IN  starts \cup {i + 1 : i \in starts}

\* Two diff outputs for the same content made at different times: the same
\* lines but for what follows the path on the header lines.
SameUpToTimestamps(d1, d2) ==
    /\ Len(d1) = Len(d2)
    /\ HeaderLines(d1) = HeaderLines(d2)
    /\ \A i \in DOMAIN d1 :
         IF i \in HeaderLines(d1)
           THEN d1[i][1] = d2[i][1] /\ d1[i][2] = d2[i][2]
           ELSE d1[i] = d2[i]

\* C11: two runs of GeneratePatch whose diff outputs differ only in the
\* timestamps of the header lines write the same patch file, and every
\* header line is persisted as its marker and its path.
C11_TimestampsStrippedSamePatch ==
    \A p \in persisted :
      /\ \A q \in persisted : SameUpToTimestamps(p.out, q.out) => p.file = q.file
      /\ \A i \in HeaderLines(p.out) :
           /\ i \in DOMAIN p.file.lines
           /\ p.file.lines[i] = <<p.out[i][1], p.out[i][2]>>

\* C11 witness: two patches written from outputs with different timestamps.
C11_Witness ==
    \E p, q \in persisted :
      /\ p.out # q.out
      /\ SameUpToTimestamps(p.out, q.out)
      /\ p.file = q.file

\* C21: a written patch has the lines of the diff output, in number and
\* order, and every line that is not a file header line, a hunk body line
\* whose first word is "---" or "+++" included, is written unchanged.
C21_OnlyHeaderLinesChanged ==
    \A p \in persisted :
      /\ Len(p.file.lines) = Len(p.out)
      /\ \A i \in DOMAIN p.out :
           i \notin HeaderLines(p.out) =>
             (i \in DOMAIN p.file.lines /\ p.file.lines[i] = p.out[i])

\* The characters of word stand in text from some position on.
Names(text, word) ==
    \E k \in DOMAIN text :
      \A j \in DOMAIN word : k + j - 1 <= Len(text) /\ text[k + j - 1] = word[j]

\* The tool check of the last call failed: the tool was not located, or
\* its version output has the substring Apple or FreeBSD.
ToolRejected(toolCall) ==
    \/ ~toolCall.found
    \/ toolCall.probe.ok /\ (\/ Names(toolCall.probe.out, Apple)
                            \/ Names(toolCall.probe.out, FreeBSD))

\* C12: a tool that is not located, or whose version output names Apple
\* or FreeBSD, makes GeneratePatch (ApplyPatch) return an error without
\* running diff on the trees (patch on the destination) and without
\* touching the patch file or the destination; a version output that names
\* neither passes the check, and the operation goes on to run diff (to open
\* the patch file and run patch).
C12_ToolCheckedFirst ==
    /\ gp.called =>
         /\ ToolRejected(gp) =>
              /\ gp.err # Nil /\ ~gp.patchWritten
              /\ \A i \in DOMAIN gp.cmds : gp.cmds[i] # "diff -uN"
              /\ patchFile = gp.before
         /\ (gp.found /\ gp.probe.ok /\ ~ToolRejected(gp)) =>
              /\ Len(gp.cmds) = 2
              /\ gp.cmds[2] = "diff -uN"
    /\ ap.called =>
         /\ ToolRejected(ap) =>
              /\ ap.err # Nil
              /\ \A i \in DOMAIN ap.cmds : ap.cmds[i] # "patch -E -p1"
              /\ destDir = ap.before
              /\ patchFile = ap.file
         /\ (ap.found /\ ap.probe.ok /\ ~ToolRejected(ap)) =>
              /\ ap.err # <<"detected Apple/FreeBSD version">>
              /\ ap.openOk => (Len(ap.cmds) = 2 /\ ap.cmds[2] = "patch -E -p1")

\* C12 witness: a patch tool whose version output has Apple inside a word
\* ("patch 2.0-12u11-Apple") rejected with a patch file present and the
\* destination partly patched.
C12_Witness ==
    /\ ap.called /\ ap.found /\ ToolRejected(ap)
    /\ ap.probe.out = ApplePatchVersion
    /\ ap.file.exists /\ ap.before = "partly patched"

\* The patch subprocess of the last call was run or attempted.
PatchAttempted ==
    ap.called /\ ap.found /\ checkDependencyPackage(ap.probe) = Nil /\ ap.openOk

\* C13: when the tool check passes and the patch file opens, ApplyPatch
\* returns an error exactly when the patch subprocess fails; it then logs
\* the captured output, returns the error of the subprocess, and leaves the
\* destination as the tool left it.
C13_ApplyPatchErrorIffToolFails ==
    PatchAttempted =>
      /\ (ap.err # Nil) <=> (~ap.run.started \/ ap.run.exit # 0)
      /\ (ap.err # Nil) =>
           /\ ap.err = <<"patch", ap.run.started, ap.run.exit>>
           /\ ap.log[Len(ap.log)] = <<"unable to apply patch", ap.run.out>>
      /\ (ap.err = Nil) => Len(ap.log) = 1
      /\ destDir = ap.run.dest

\* C13 witness: patch rejected a hunk and left the destination partly
\* patched.
C13_Witness ==
    /\ PatchAttempted /\ ap.run.started /\ ap.run.exit = 1
    /\ ap.before = "original" /\ destDir = "partly patched"

(***************************************************************************)
(* Properties of the Chart of a package.                                   *)
(***************************************************************************)
\* A Prepare call returned before call i of the trail.
PreparedBefore(i) == \E j \in 1..(i - 1) : trail[j].op = "Prepare"

\* The steps of Prepare that come before the upstream version is read.
StepsBeforeRead == {"RemoveAll", "Pull", "ConvertToHelmChart"}

\* C16: over the calls made on one Chart, GenerateChart fails with the
\* never-been-prepared error exactly when no Prepare has returned before
\* it; every return of Prepare, with or without error, leaves
\* UpstreamChartVersion non-nil, and "" for a local chart and for a Prepare
\* that failed before the upstream version was read.
C16_PreparedOnceAnyPrepareReturned ==
    /\ \A i \in DOMAIN trail :
         /\ trail[i].op = "GenerateChart" =>
              (trail[i].err = <<"never been prepared">> <=> ~PreparedBefore(i))
         /\ trail[i].op = "Prepare" =>
              /\ trail[i].after # Nil
              /\ (chartObj.local \/ trail[i].failAt \in StepsBeforeRead) =>
                   trail[i].after = <<"">>
    /\ PreparedBefore(Len(trail) + 1) => chartObj.UpstreamChartVersion # Nil

\* C16 witness: GenerateChart was refused, then Prepare failed at the pull,
\* then GenerateChart was let through.
C16_Witness ==
    /\ Len(trail) = 3
    /\ trail[1].op = "GenerateChart" /\ trail[1].err = <<"never been prepared">>
    /\ trail[2].op = "Prepare" /\ trail[2].err = <<"Pull">>
    /\ trail[3].op = "GenerateChart" /\ trail[3].err = Nil

(***************************************************************************)
(* Properties of archiving and dumping.                                    *)
(***************************************************************************)
\* The paths that the filter lets through: equal to it or below it.
Selected(specific, path) ==
    specific = <<>> \/ specific = path \/ specific = Dir(path)

\* The directories charts/{chart}/{version} of the tree that a call of
\* ArchiveCharts with the filter is to process, and the files
\* assets/{chart}/{file}.tgz that a call of DumpAssets is to process.
MatchingCharts(files, specific) ==
    {d \in DirsOf(files) : /\ Len(d) = 3 /\ d[1] = RepositoryChartsDir
                           /\ Selected(specific, Tail(d))}
MatchingAssets(files, specific) ==
    {f.path : f \in {g \in files : /\ Len(g.path) = 3 /\ g.path[1] = RepositoryAssetsDir
                                   /\ IsTgz(g.path)
                                   /\ Selected(specific, Tail(g.path))}}

\* C17: a call of ArchiveCharts (DumpAssets) processes only the
\* directories charts/{chart}/{version} (files assets/{chart}/{file}.tgz)
\* that the filter selects, all of them when it returns no error; it
\* returns the not-found error exactly when the filter is not empty, the
\* walk works and nothing is selected, and never with an empty filter.
C17_FilterSelectsAndReportsNotFound ==
    call # <<>> =>
      LET matching == IF call.op = "ArchiveCharts"
                        THEN MatchingCharts(call.before, call.specific)
                        ELSE MatchingAssets(call.before, call.specific)
          notFound == IF call.op = "ArchiveCharts" THEN <<"could not find chart">>
                      ELSE <<"could not find asset">>
      IN  /\ call.done \subseteq matching
          /\ call.err = Nil => call.done = matching
          /\ (call.err = notFound) <=>
               (Len(call.specific) > 0 /\ call.walkOk /\ matching = {})
          /\ call.specific = <<>> => call.err # notFound

\* C17 witness: ArchiveCharts with the filter nginx/1.2.0 processed that
\* chart and left the other version of nginx alone.
C17_Witness ==
    /\ call # <<>> /\ call.op = "ArchiveCharts" /\ call.err = Nil
    /\ call.specific = <<"nginx", "1.2.0">>
    /\ call.done = {<<RepositoryChartsDir, "nginx", "1.2.0">>}
    /\ <<RepositoryChartsDir, "nginx", "1.3.0">> \in DirsOf(call.before)

\* The steps of GeneratePatch from the pull into the original directory
\* on.
StepsFromPull == {"Pull", "ConvertToHelmChart", "PrepareDependencies", "GenerateChanges"}

\* C22: whenever GeneratePatch on a chart that is not local has returned
\* with success, or with the error of the pull or of a step after it, the
\* original directory is absent (a removal that itself fails set aside).
C22_OriginalDirRemovedOnReturn ==
    \A i \in DOMAIN trail :
      (/\ trail[i].op = "GeneratePatch"
       /\ ~chartObj.local
       /\ trail[i].removeOk
       /\ (trail[i].err = Nil \/ trail[i].err[1] \in StepsFromPull)) =>
        trail[i].after.OriginalDir = "absent"

(***************************************************************************)
(* Properties of standardizing.                                            *)
(***************************************************************************)
\* The chart paths collected from the tree the operation started on.
Collected == {Dir(f.path) : f \in call.before.charts}

\* q is a proper ancestor directory of p.
IsProperAncestor(q, p) == Len(q) < Len(p) /\ SubSeq(p, 1, Len(q)) = q

\* The subchart removal loop has run.
SubchartsRemoved == \E i \in DOMAIN trail : trail[i].op = "removeSubcharts"

\* C18: after the subchart removal loop the remaining chart paths are the
\* collected paths that have no collected proper ancestor directory,
\* whatever the order of the iteration and the depth of the nesting.
C18_SubchartsRemovedWhateverTheOrder ==
    SubchartsRemoved =>
      DOMAIN targetChartPaths =
        {p \in Collected : ~\E q \in Collected : IsProperAncestor(q, p)}

\* C18 witness: a chart, its subchart and the subchart of the subchart
\* were collected, and the loop reached the subchart before the subchart
\* of the subchart, whose parent chart was then no longer in the map.
C18_Witness ==
    /\ SubchartsRemoved
    /\ LET nginx == <<RepositoryChartsDir, "nginx", "1.2.0">>
           sub == nginx \o <<"charts", "sub">>
           leaf == sub \o <<"charts", "leaf">>
           order == trail[2].arg
       IN  /\ {nginx, sub, leaf} \subseteq Collected
           /\ \E i, j \in DOMAIN order : i < j /\ order[i] = sub /\ order[j] = leaf
           /\ nginx \in DOMAIN targetChartPaths
           /\ leaf \notin DOMAIN targetChartPaths

\* Two of the remaining charts declare the same name and version.
ConflictAmongRemaining ==
    \E p, q \in DOMAIN targetChartPaths :
      /\ p # q
      /\ targetChartPaths[p].name = targetChartPaths[q].name
      /\ targetChartPaths[p].version = targetChartPaths[q].version

\* The steps before step i of the trail that did op on arg with success.
DoneBefore(i, op, arg) ==
    {j \in 1..(i - 1) : trail[j].op = op /\ trail[j].arg = arg /\ trail[j].ok}

\* C19: when two remaining charts declare the same name and version the
\* operation returns the conflict error with assets/, charts/ and the
\* index as they were; assets/ is removed only after the uniqueness check
\* has passed, and charts/ only after every remaining chart was archived.
C19_ConflictBeforeDestructiveSteps ==
    /\ (SubchartsRemoved /\ pc # "unique" /\ ConflictAmongRemaining) =>
         /\ pc = "returned"
         /\ call.err # Nil /\ call.err[1] = "chart is declared in"
         /\ repo = call.before
         /\ \A i \in DOMAIN trail :
              trail[i].op \notin {"RemoveAll", "GenerateArchive", "DumpAssets",
                                  "CreateOrUpdateHelmIndex"}
    /\ \A i \in DOMAIN trail :
         /\ (trail[i].op = "RemoveAll" /\ trail[i].arg = RepositoryAssetsDir) =>
              DoneBefore(i, "ensureUnique", "") # {}
         /\ (trail[i].op = "RemoveAll" /\ trail[i].arg = RepositoryChartsDir) =>
              \A p \in DOMAIN targetChartPaths : DoneBefore(i, "GenerateArchive", p) # {}
    /\ repo.assets # call.before.assets =>
         \E i \in DOMAIN trail : trail[i].op = "ensureUnique" /\ trail[i].ok
    /\ repo.charts # call.before.charts =>
         \E i \in DOMAIN trail :
           /\ trail[i].op = "RemoveAll" /\ trail[i].arg = RepositoryChartsDir
           /\ \A p \in DOMAIN targetChartPaths : DoneBefore(i, "GenerateArchive", p) # {}

\* C19 witness: the operation returned the conflict error on a tree that
\* had assets and two charts declaring redis 1.3.0.
C19_Witness ==
    /\ pc = "returned" /\ ConflictAmongRemaining
    /\ call.err # Nil /\ call.err[1] = "chart is declared in"
    /\ call.before.assets # {}
    /\ repo = call.before

(***************************************************************************)
(* Properties of asset file names.                                         *)
(***************************************************************************)
\* The stem of the file name, and the positions of its digits.
Stem == SubSeq(filename, 1, Len(filename) - Len(TgzSuffix))
DigitsAt == {i \in DOMAIN Stem : IsDigit(Stem[i])}
FirstDigit == CHOOSE i \in DigitsAt : \A j \in DigitsAt : i <= j

\* C20: getChartNameAndVersion returns the error of a missing suffix for a
\* name without .tgz, the error of no details for a .tgz name whose stem
\* has no digit, and otherwise the text before the separator that precedes
\* the first digit of the stem as the name and the text from that digit on
\* as the version; it returns for every file name.
C20_NameAndVersionSplitAtFirstDigit ==
    call # <<>> =>
      /\ ~call.panic
      /\ ~HasSuffix(filename, TgzSuffix) =>
           call.err = "file does not have a .tgz suffix"
      /\ (HasSuffix(filename, TgzSuffix) /\ DigitsAt = {}) =>
           call.err = "could not extract details from filename"
      /\ (HasSuffix(filename, TgzSuffix) /\ DigitsAt # {}) =>
           /\ call.err = ""
           /\ call.name = SubSeq(Stem, 1, FirstDigit - 2)
           /\ call.version = SubSeq(Stem, FirstDigit, Len(Stem))

====
